---------------------------- MODULE Spec2Model ----------------------------
(***************************************************************************)
(* A model of the AI_LMS mobile client: the generic request wrapper of     *)
(* services/api.ts and the screens that call it (Generate, subject detail, *)
(* Vetting, Subjects).  Each screen is a state machine over its component  *)
(* state (useState / useRef), the requests it has in flight and the        *)
(* intervals it has started; the backend is an external collaborator whose *)
(* responses are chosen nondeterministically.                              *)
(***************************************************************************)
EXTENDS Integers, Sequences, FiniteSets, Bags, TLC

VARIABLES
    calls,      \* api.ts request(): one record per call of request, in call order
    alert,      \* the message of the alert the last step showed, "" when it showed none
    platform,   \* Platform.OS: "web" or "native"
    requests,   \* the bag of requests the mounted screen has in flight
    \* ---- GenerateScreen (generate.tsx) ----
    mounted,
    view, loading, rubrics, subjects, ollamaStatus,
    selectedRubric, selectedSubject, rubricName, difficulty,
    jobId, jobData, elapsed,
    pollRef, timerRef,
    intervals,      \* the intervals setInterval has started and nothing has cleared
    srvRubrics,     \* backend: the rubrics that exist
    srvJob,         \* backend: the status of each generation job
    terminalSeen,   \* history: jobs whose terminal poll response the client processed
    \* ---- SubjectDetailScreen (_layout.tsx): the Bloom's Taxonomy modal ----
    syllabusModal, activeTopicForSyllabus, bloomDistribution,
    topicBloom,     \* subject: the bloom_distribution of the topic as last fetched
    srvBloom,       \* backend: the bloom_distribution stored for the topic
    \* ---- SyllabusUploadDialog (QuestionUploadDialog.tsx) ----
    dialogVisible, weights,
    moves,          \* slider changes made so far
    saved,          \* the distribution the last step saved, <<>> when it saved none
    \* ---- QuestionReviewView (vetting.tsx) ----
    isHistory, queue, currentIndex, action, selectedCos, coLevels, feedback,
    rejectionReason, submitting, allReviewed, coList,
    srvPending,     \* backend: the questions the queue request of the batch returns
    srvVetted,      \* backend: the approved and the rejected questions of the batch
    submitted,      \* the body of the submitVetting request the last step sent, or <<>>
    \* ---- the mutating handlers of all screens ----
    lastSettled,    \* the request the last step settled and how, if it settled one
    \* ---- TrainingDashboard ----
    trMounted, trStats, trStatus, trLoading, starting, trElapsed,
    timerStart,     \* timerStart.current is set
    timerInterval,  \* timerInterval.current is set
    trIntervals,    \* the intervals of the dashboard that are running
    srvTraining,    \* backend: the training status of the subject
    srvReady,       \* backend: the dataset has enough approved questions
    trainings,      \* trainings the backend has started
    quiet,          \* history: a non-active status was seen and its refresh has completed
    \* ---- SubjectsScreen (subjects/index.tsx): the New Subject modal ----
    modalVisible, newName, newCode, creating,
    \* ---- SubjectDetailScreen (_layout.tsx): the unit, topic and CO modals ----
    unitModal, unitName, unitNumber,
    topicCreateModal, activeUnitId, topicTitle,
    coModal, coText, coCode, coBlooms, editingCoId,
    sent            \* the call of a create/update function the last step made, or <<>>

requestVars == <<calls>>
generateVars ==
    <<mounted, view, loading, rubrics, subjects, ollamaStatus, selectedRubric,
      selectedSubject, rubricName, difficulty, jobId, jobData, elapsed, pollRef,
      timerRef, intervals, srvRubrics, srvJob, terminalSeen>>
detailVars ==
    <<syllabusModal, activeTopicForSyllabus, bloomDistribution, topicBloom, srvBloom,
      dialogVisible, weights, moves, saved>>
reviewVars ==
    <<isHistory, queue, currentIndex, action, selectedCos, coLevels, feedback,
      rejectionReason, submitting, allReviewed, coList, srvPending,
      srvVetted>>
vettingVars == <<reviewVars, submitted>>
trainingVars ==
    <<trMounted, trStats, trStatus, trLoading, starting, trElapsed, timerStart,
      timerInterval, trIntervals, srvTraining, srvReady, trainings, quiet>>
formVars ==
    <<modalVisible, newName, newCode, creating, unitModal, unitName, unitNumber,
      topicCreateModal, activeUnitId, topicTitle, coModal, coText, coCode, coBlooms,
      editingCoId, sent>>
\* What the Generate screen and the request wrapper leave alone.
otherScreens == <<detailVars, vettingVars, lastSettled, trainingVars, formVars>>
vars ==
    <<calls, alert, platform, requests, generateVars, detailVars, vettingVars,
      lastSettled, trainingVars, formVars>>

NoAlert == ""
Platforms == {"web", "native"}

\* The Generate screen before it is mounted (used by the other specifications).
GenerateIdle ==
    /\ mounted = FALSE /\ view = "select" /\ loading = TRUE
    /\ rubrics = {} /\ subjects = {} /\ ollamaStatus = "null"
    /\ selectedRubric = 0 /\ selectedSubject = 0 /\ rubricName = <<>>
    /\ difficulty = "Medium" /\ jobId = 0 /\ jobData = [job |-> 0, status |-> "null"]
    /\ elapsed = 0 /\ pollRef = 0 /\ timerRef = 0 /\ intervals = {}
    /\ srvRubrics = {} /\ srvJob = <<>> /\ terminalSeen = {}

\* The six Bloom's levels, in the order both screens list them, and the default
\* weight of each.
BloomLevels ==
    <<"Knowledge", "Comprehension", "Application", "Analysis", "Synthesis", "Evaluation">>
BloomDefault == <<40, 20, 20, 10, 5, 5>>

NoneSettled == [kind |-> "none", outcome |-> "none"]

\* The subject-detail screen and the syllabus dialog before anything was opened.
DetailIdle ==
    /\ syllabusModal = FALSE /\ activeTopicForSyllabus = 0
    /\ bloomDistribution = BloomDefault /\ topicBloom = <<>> /\ srvBloom = <<>>
    /\ dialogVisible = FALSE /\ weights = BloomDefault /\ moves = 0 /\ saved = <<>>

\* No approved and no rejected question.
NoneVetted == [approved |-> <<>>, rejected |-> <<>>]

\* The review view before a batch is opened.
VettingIdle ==
    /\ isHistory = FALSE /\ queue = <<>> /\ currentIndex = 0 /\ action = "null"
    /\ selectedCos = <<>> /\ coLevels = {} /\ feedback = <<>>
    /\ rejectionReason = "null" /\ submitting = FALSE /\ allReviewed = FALSE
    /\ coList = {} /\ srvPending = <<>> /\ srvVetted = NoneVetted /\ submitted = <<>>

\* The creation modals before any of them was opened.
FormsIdle ==
    /\ modalVisible = FALSE /\ newName = <<>> /\ newCode = <<>> /\ creating = FALSE
    /\ unitModal = FALSE /\ unitName = <<>> /\ unitNumber = <<>>
    /\ topicCreateModal = FALSE /\ activeUnitId = 0 /\ topicTitle = <<>>
    /\ coModal = FALSE /\ coText = <<>> /\ coCode = <<>> /\ coBlooms = <<"Knowledge">>
    /\ editingCoId = 0 /\ sent = <<>>

\* The training dashboard before it is mounted.
TrainingIdle ==
    /\ trMounted = FALSE /\ trStats = "null" /\ trStatus = "null" /\ trLoading = TRUE
    /\ starting = FALSE /\ trElapsed = 0 /\ timerStart = FALSE
    /\ timerInterval = FALSE /\ trIntervals = {} /\ srvTraining = "idle"
    /\ srvReady = FALSE /\ trainings = 0 /\ quiet = "none"

(***************************************************************************)
(*                     services/api.ts : request                           *)
(***************************************************************************)

\* Number of calls of request() the model follows.
MaxCalls == 2

Endpoints == {"/api/subjects/", "/api/rubrics/"}

\* JavaScript values that the fields of an error body may hold.
JsUndefined == [t |-> "undefined", s |-> ""]
JsString(s) == [t |-> "string", s |-> s]
JsObject == [t |-> "object", s |-> ""]

\* ToBoolean of the values above: "" and undefined are falsy, objects truthy.
JsTruthy(v) ==
    CASE v.t = "undefined" -> FALSE
      [] v.t = "string" -> v.s # ""
      [] v.t = "object" -> TRUE

\* ToString as a template literal applies it: an object prints as
\* [object Object], a string as itself.
JsToString(v) ==
    CASE v.t = "undefined" -> "undefined"
      [] v.t = "string" -> v.s
      [] v.t = "object" -> "[object Object]"

DetailValues == {JsUndefined, JsString(""), JsString("Not found")}
MessageValues == {JsUndefined, JsString("Validation failed"), JsObject}

\* Response bodies: text that is not JSON, the JSON literal null, a JSON object.
TextBody == [kind |-> "text", detail |-> JsUndefined, message |-> JsUndefined]
NullBody == [kind |-> "null", detail |-> JsUndefined, message |-> JsUndefined]
ObjectBody(d, m) == [kind |-> "object", detail |-> d, message |-> m]
ErrorBodies ==
    {TextBody, NullBody} \cup {ObjectBody(d, m) : d \in DetailValues, m \in MessageValues}
OkBodies == {TextBody, ObjectBody(JsUndefined, JsUndefined)}

StatusText(status) ==
    CASE status = 200 -> "OK"
      [] status = 204 -> "No Content"
      [] status = 404 -> "Not Found"
      [] status = 500 -> "Internal Server Error"

Statuses == {200, 204, 404, 500}

\* Response.ok of the fetch standard: the status is in the range 200-299.
ResOk(status) == status >= 200 /\ status <= 299

Responses ==
    {[status |-> st, statusText |-> StatusText(st), body |-> b] :
        st \in {s \in Statuses : ~ResOk(s)}, b \in ErrorBodies}
    \cup {[status |-> st, statusText |-> StatusText(st), body |-> b] :
        st \in {s \in Statuses : ResOk(s)}, b \in OkBodies}

NoResponse == [status |-> 0, statusText |-> "", body |-> TextBody]

\* A number as a template literal prints it: its decimal digits.
DigitChar(d) == SubSeq(<<"0", "1", "2", "3", "4", "5", "6", "7", "8", "9">>, d + 1, d + 1)
RECURSIVE Decimal(_)
Decimal(n) == IF n < 10 THEN DigitChar(n) ELSE Decimal(n \div 10) \o DigitChar(n % 10)

\* Mutant: the message leaves the status out.
BaseMessageNoStatus(res) == <<"API Error: ", res.statusText>>

\* api.ts:45  `API Error: ${res.status} ${res.statusText}`
BaseMessage(res) == <<"API Error: ">> \o Decimal(res.status) \o <<" ", res.statusText>>

\* api.ts:49  if (errorBody.detail) errorMessage += ` - ${errorBody.detail}`
AppendDetail(msg, body) ==
    IF JsTruthy(body.detail) THEN msg \o <<" - ", JsToString(body.detail)>> ELSE msg

\* api.ts:50  if (errorBody.message) errorMessage += ` - ${errorBody.message}`
AppendMessage(msg, body) ==
    IF JsTruthy(body.message) THEN msg \o <<" - ", JsToString(body.message)>> ELSE msg

\* Mutant: the inner try has no catch, so a body that is not JSON surfaces as the
\* parse error, and the detail is appended whether truthy or not.
ErrorMessageNoInnerCatch(msg, body) ==
    CASE body.kind = "text" -> <<"SyntaxError: JSON Parse error">>
      [] body.kind = "null" -> <<"TypeError: null is not an object">>
      [] body.kind = "object" ->
            AppendMessage(msg \o <<" - ", JsToString(body.detail)>>, body)

\* api.ts:46-53  the inner try/catch: res.json() throws on a body that is not JSON,
\* reading a property of null throws a TypeError; both are swallowed and the
\* message built so far is kept.
ErrorMessageAfterBody(msg, body) ==
    CASE body.kind = "text" -> msg
      [] body.kind = "null" -> msg
      [] body.kind = "object" -> AppendMessage(AppendDetail(msg, body), body)

NetworkError == <<"TypeError: Network request failed">>
ParseError == <<"SyntaxError: JSON Parse error">>

NewCall(endpoint) ==
    [endpoint |-> endpoint, pc |-> "fetch", fetches |-> 1, res |-> NoResponse,
     errorMessage |-> <<>>, error |-> <<>>]

\* api.ts:31-42  a call of request(): the url is built and fetch is called once.
Request(endpoint) ==
    /\ Len(calls) < MaxCalls
    /\ calls' = Append(calls, NewCall(endpoint))
    /\ UNCHANGED <<alert, platform, requests, generateVars, otherScreens>>

\* Mutant: a failed fetch is retried once before the error is rethrown.
FetchRejectedRetry(c) ==
    IF c.fetches < 2
    THEN [c EXCEPT !.fetches = @ + 1]
    ELSE [c EXCEPT !.pc = "rejected", !.error = <<"TypeError: Network request failed">>]

\* api.ts:42,63-66  fetch rejects (network error): the outer catch logs and rethrows.
FetchRejected(c) ==
    [c EXCEPT !.pc = "rejected", !.error = NetworkError]

FetchRejects(i) ==
    /\ calls[i].pc = "fetch"
    /\ calls' = [calls EXCEPT ![i] = FetchRejected(calls[i])]
    /\ UNCHANGED <<alert, platform, requests, generateVars, otherScreens>>

\* api.ts:42-62  fetch resolves with res: the code up to the next await.
FetchResolved(c, res) ==
    IF ~ResOk(res.status)
    THEN [c EXCEPT !.pc = "errorJson", !.res = res, !.errorMessage = BaseMessage(res)]
    ELSE IF res.status = 204
         THEN [c EXCEPT !.pc = "resolved", !.res = res]
         ELSE [c EXCEPT !.pc = "json", !.res = res]

FetchResolves(i, res) ==
    /\ calls[i].pc = "fetch"
    /\ calls' = [calls EXCEPT ![i] = FetchResolved(calls[i], res)]
    /\ UNCHANGED <<alert, platform, requests, generateVars, otherScreens>>

\* api.ts:46-54,63-66  res.json() of the error branch settles; whatever happened
\* inside the inner try, Error(errorMessage) is thrown, and rethrown by the outer catch.
ErrorBodySettled(c) ==
    LET msg == ErrorMessageAfterBody(c.errorMessage, c.res.body)
    IN  [c EXCEPT !.pc = "rejected", !.errorMessage = msg, !.error = msg]

ErrorBodySettles(i) ==
    /\ calls[i].pc = "errorJson"
    /\ calls' = [calls EXCEPT ![i] = ErrorBodySettled(calls[i])]
    /\ UNCHANGED <<alert, platform, requests, generateVars, otherScreens>>

\* api.ts:62-66  return res.json(): the promise follows the body's parse.
BodySettled(c) ==
    IF c.res.body.kind = "text"
    THEN [c EXCEPT !.pc = "rejected", !.error = ParseError]
    ELSE [c EXCEPT !.pc = "resolved"]

BodySettles(i) ==
    /\ calls[i].pc = "json"
    /\ calls' = [calls EXCEPT ![i] = BodySettled(calls[i])]
    /\ UNCHANGED <<alert, platform, requests, generateVars, otherScreens>>

InitRequest ==
    /\ calls = <<>>
    /\ alert = NoAlert
    /\ platform = "native"
    /\ requests = EmptyBag
    /\ GenerateIdle /\ DetailIdle /\ VettingIdle /\ lastSettled = NoneSettled /\ TrainingIdle /\ FormsIdle

NextRequest ==
    \/ \E e \in Endpoints : Request(e)
    \/ \E i \in DOMAIN calls : FetchRejects(i)
    \/ \E i \in DOMAIN calls, res \in Responses : FetchResolves(i, res)
    \/ \E i \in DOMAIN calls : ErrorBodySettles(i)
    \/ \E i \in DOMAIN calls : BodySettles(i)

SpecRequest == InitRequest /\ [][NextRequest]_vars

(***************************************************************************)
(*                    Claims about the request wrapper                     *)
(***************************************************************************)

\* sub occurs in seq as a run of consecutive elements.
Contains(seq, sub) ==
    \E k \in 0..(Len(seq) - Len(sub)) : SubSeq(seq, k + 1, k + Len(sub)) = sub

GotResponse(c) == c.res # NoResponse
NonOk(c) == GotResponse(c) /\ ~ResOk(c.res.status)

\* C1: a call of request whose fetch resolved with a non-2xx response never
\* resolves with a value; it rejects, and the message of the Error it rejects
\* with contains the decimal status of the response.
C1_NonOkRejectsWithStatus ==
    \A i \in DOMAIN calls :
        NonOk(calls[i]) =>
            /\ calls[i].pc \in {"errorJson", "rejected"}
            /\ calls[i].pc = "rejected" =>
                    Contains(calls[i].error, Decimal(calls[i].res.status))

C1_Witness ==
    \E i \in DOMAIN calls :
        /\ calls[i].pc = "rejected"
        /\ calls[i].res.status = 404
        /\ Contains(calls[i].error, <<"4", "0", "4">>)

\* What the claim says is appended for a field of the error body.
FieldSuffix(v) == IF v.t # "undefined" /\ JsTruthy(v) THEN <<" - ", JsToString(v)>> ELSE <<>>
StatusOnly(res) == <<"API Error: ">> \o Decimal(res.status) \o <<" ", res.statusText>>

\* C9: a call rejected on a non-2xx response carries the status message followed
\* by the body's detail and then its message, each only when present and truthy,
\* when the body is a JSON object; and exactly the status-only message (never the
\* parse error) when the body is not JSON or holds no fields.
C9_BestEffortBody ==
    \A i \in DOMAIN calls :
        (NonOk(calls[i]) /\ calls[i].pc = "rejected") =>
            LET r == calls[i].res
                e == calls[i].error
            IN  /\ r.body.kind = "object" =>
                    e = StatusOnly(r) \o FieldSuffix(r.body.detail) \o FieldSuffix(r.body.message)
                /\ r.body.kind \in {"text", "null"} => e = StatusOnly(r)
                /\ e # ParseError

C9_Witness ==
    /\ \E i \in DOMAIN calls :
        /\ calls[i].pc = "rejected" /\ NonOk(calls[i])
        /\ calls[i].res.body.kind = "text"
    /\ \E i \in DOMAIN calls :
        /\ calls[i].pc = "rejected" /\ NonOk(calls[i])
        /\ calls[i].res.body = ObjectBody(JsString("Not found"), JsObject)
        /\ Len(calls[i].error) = Len(StatusOnly(calls[i].res)) + 4

\* C10: every call of request has issued exactly one fetch, in every state up to
\* and after its settling (no retry), and two calls of the same endpoint have
\* issued two fetches between them (no caching).
C10_OneFetchPerCall ==
    /\ \A i \in DOMAIN calls : calls[i].fetches = 1
    /\ \A i, j \in DOMAIN calls :
        (i < j /\ calls[i].endpoint = calls[j].endpoint) =>
            calls[i].fetches + calls[j].fetches = 2

C10_Witness ==
    \E i, j \in DOMAIN calls :
        /\ i < j
        /\ calls[i].endpoint = calls[j].endpoint
        /\ calls[i].pc = "rejected" /\ calls[i].error = NetworkError
        /\ calls[j].pc = "rejected" /\ NonOk(calls[j])

(***************************************************************************)
(*                  app/(tabs)/generate.tsx : GenerateScreen               *)
(***************************************************************************)

\* Generation jobs the backend creates in one run of the model.
MaxGenerations == 2
\* Requests the screen may have in flight at once.
MaxInflight == 2
\* Seconds the elapsed counter is followed for.
MaxElapsed == 1

RubricIds == {1}
SubjectIds == {1}
Difficulties == {"Easy", "Medium", "Hard"}
RubricNames == {<<>>, <<" ">>, <<" ", "a", " ">>}

\* String.prototype.trim: white space is removed from both ends.
Whitespace == {" "}
RECURSIVE TrimStart(_)
TrimStart(s) == IF s # <<>> /\ Head(s) \in Whitespace THEN TrimStart(Tail(s)) ELSE s
RECURSIVE TrimEnd(_)
TrimEnd(s) ==
    IF s # <<>> /\ s[Len(s)] \in Whitespace THEN TrimEnd(SubSeq(s, 1, Len(s) - 1)) ELSE s
Trim(s) == TrimEnd(TrimStart(s))

\* A request in flight: the api function called and its arguments.
Req(kind, a, b, name) == [kind |-> kind, a |-> a, b |-> b, name |-> name]
FetchDataReq == Req("fetchData", 0, 0, <<>>)
InFlight == BagCardinality(requests)
Pending(kind) == {r \in BagToSet(requests) : r.kind = kind}
Send(r) == requests (+) SetToBag({r})
Settle(r) == requests (-) SetToBag({r})

\* A state setter of a component: React drops the update once it has unmounted.
SetState(old, new) == IF mounted THEN new ELSE old

\* clearInterval(ref.current) for the poll interval and the timer interval a ref holds.
Interval(kind, job) == [kind |-> kind, job |-> job, live |-> mounted]
ClearInterval(set, kind, ref) == {i \in set : ~(i.kind = kind /\ i.job = ref)}
ClearBoth(set) == ClearInterval(ClearInterval(set, "poll", pollRef), "timer", timerRef)

JobsCreated == Cardinality({j \in DOMAIN srvJob : srvJob[j] # "none"})
Terminal == {"completed", "failed"}

\* generate.tsx:16-42,57  the state of a freshly mounted screen; the mount effect
\* has called fetchData.
InitGenerate ==
    /\ calls = <<>>
    /\ alert = NoAlert
    /\ platform \in Platforms
    /\ requests = SetToBag({FetchDataReq})
    /\ mounted = TRUE /\ view = "select" /\ loading = TRUE
    /\ rubrics = {} /\ subjects = {} /\ ollamaStatus = "null"
    /\ selectedRubric = 0 /\ selectedSubject = 0 /\ rubricName = <<>>
    /\ difficulty = "Medium" /\ jobId = 0 /\ jobData = [job |-> 0, status |-> "null"]
    /\ elapsed = 0 /\ pollRef = 0 /\ timerRef = 0 /\ intervals = {}
    /\ srvRubrics \in SUBSET RubricIds
    /\ srvJob = [j \in 1..MaxGenerations |-> "none"]
    /\ terminalSeen = {}
    /\ DetailIdle /\ VettingIdle /\ lastSettled = NoneSettled /\ TrainingIdle /\ FormsIdle

\* generate.tsx:44-55  fetchData: the three requests resolved (getOllamaStatus
\* falls back to { available: false } when it rejects).
FetchDataResolves(ollama) ==
    /\ BagIn(FetchDataReq, requests)
    /\ requests' = Settle(FetchDataReq)
    /\ rubrics' = SetState(rubrics, srvRubrics)
    /\ subjects' = SetState(subjects, SubjectIds)
    /\ ollamaStatus' = SetState(ollamaStatus, ollama)
    /\ loading' = SetState(loading, FALSE)
    /\ alert' = NoAlert
    /\ UNCHANGED <<calls, platform, otherScreens, mounted, view, selectedRubric, selectedSubject,
                   rubricName, difficulty, jobId, jobData, elapsed, pollRef, timerRef,
                   intervals, srvRubrics, srvJob, terminalSeen>>

\* generate.tsx:54  getRubrics or getSubjects rejected: catch (e) { }, then finally.
FetchDataRejects ==
    /\ BagIn(FetchDataReq, requests)
    /\ requests' = Settle(FetchDataReq)
    /\ loading' = SetState(loading, FALSE)
    /\ alert' = NoAlert
    /\ UNCHANGED <<calls, platform, otherScreens, mounted, view, rubrics, subjects, ollamaStatus,
                   selectedRubric, selectedSubject, rubricName, difficulty, jobId,
                   jobData, elapsed, pollRef, timerRef, intervals, srvRubrics, srvJob,
                   terminalSeen>>

\* generate.tsx:182  a subject chip is pressed: select it, or deselect it.
PressSubject(s) ==
    /\ mounted /\ view = "select" /\ s \in subjects
    /\ selectedSubject' = IF selectedSubject = s THEN 0 ELSE s
    /\ alert' = NoAlert
    /\ UNCHANGED <<calls, platform, otherScreens, requests, mounted, view, loading, rubrics, subjects,
                   ollamaStatus, selectedRubric, rubricName, difficulty, jobId, jobData,
                   elapsed, pollRef, timerRef, intervals, srvRubrics, srvJob, terminalSeen>>

\* generate.tsx:200-211  a rubric card is pressed (the list renders once loaded).
PressRubric(r) ==
    /\ mounted /\ view = "select" /\ ~loading /\ r \in rubrics
    /\ selectedRubric' = IF selectedRubric = r THEN 0 ELSE r
    /\ alert' = NoAlert
    /\ UNCHANGED <<calls, platform, otherScreens, requests, mounted, view, loading, rubrics, subjects,
                   ollamaStatus, selectedSubject, rubricName, difficulty, jobId, jobData,
                   elapsed, pollRef, timerRef, intervals, srvRubrics, srvJob, terminalSeen>>

\* Mutant: the Generate button does not look at the Ollama status.
GenerateEnabledWithoutOllama == selectedRubric # 0 /\ selectedSubject # 0

\* generate.tsx:269  the Generate button is enabled.
GenerateEnabled ==
    selectedRubric # 0 /\ selectedSubject # 0 /\ ollamaStatus = "available"

\* generate.tsx:249-264  the difficulty selector, rendered when Generate is enabled.
PressDifficulty(level) ==
    /\ mounted /\ view = "select" /\ GenerateEnabled
    /\ difficulty' = level
    /\ alert' = NoAlert
    /\ UNCHANGED <<calls, platform, otherScreens, requests, mounted, view, loading, rubrics, subjects,
                   ollamaStatus, selectedRubric, selectedSubject, rubricName, jobId,
                   jobData, elapsed, pollRef, timerRef, intervals, srvRubrics, srvJob,
                   terminalSeen>>

\* generate.tsx:193  Create New Rubric.
PressCreateNewRubric ==
    /\ mounted /\ view = "select"
    /\ view' = "create"
    /\ alert' = NoAlert
    /\ UNCHANGED <<calls, platform, otherScreens, requests, mounted, loading, rubrics, subjects,
                   ollamaStatus, selectedRubric, selectedSubject, rubricName, difficulty,
                   jobId, jobData, elapsed, pollRef, timerRef, intervals, srvRubrics,
                   srvJob, terminalSeen>>

\* generate.tsx:292  the back arrow of the create view.
PressBack ==
    /\ mounted /\ view = "create"
    /\ view' = "select"
    /\ alert' = NoAlert
    /\ UNCHANGED <<calls, platform, otherScreens, requests, mounted, loading, rubrics, subjects,
                   ollamaStatus, selectedRubric, selectedSubject, rubricName, difficulty,
                   jobId, jobData, elapsed, pollRef, timerRef, intervals, srvRubrics,
                   srvJob, terminalSeen>>

\* generate.tsx:301  the Rubric Name input.
ChangeRubricName(name) ==
    /\ mounted /\ view = "create"
    /\ rubricName' = name
    /\ alert' = NoAlert
    /\ UNCHANGED <<calls, platform, otherScreens, requests, mounted, view, loading, rubrics, subjects,
                   ollamaStatus, selectedRubric, selectedSubject, difficulty, jobId,
                   jobData, elapsed, pollRef, timerRef, intervals, srvRubrics, srvJob,
                   terminalSeen>>

\* Mutant: the name is not checked before the request is sent.
CreateRubricBlockedNever(name) == FALSE

\* generate.tsx:70  if (!rubricName.trim())
CreateRubricBlocked(name) == Trim(name) = <<>>

\* generate.tsx:69-85,352  Save Rubric: handleCreateRubric up to its await.
HandleCreateRubric ==
    /\ mounted /\ view = "create"
    /\ IF CreateRubricBlocked(rubricName)
       THEN /\ alert' = "Rubric name is required"
            /\ UNCHANGED requests
       ELSE /\ InFlight < MaxInflight
            /\ requests' = Send(Req("createRubric", 0, 0, Trim(rubricName)))
            /\ alert' = NoAlert
    /\ UNCHANGED <<calls, platform, otherScreens, mounted, view, loading, rubrics, subjects,
                   ollamaStatus, selectedRubric, selectedSubject, rubricName, difficulty,
                   jobId, jobData, elapsed, pollRef, timerRef, intervals, srvRubrics,
                   srvJob, terminalSeen>>

\* generate.tsx:86-87  createRubric resolved: setView('select'); fetchData().
CreateRubricResolves(r) ==
    /\ r \in Pending("createRubric")
    /\ \E id \in RubricIds \ srvRubrics :
        /\ \A other \in RubricIds \ srvRubrics : id <= other
        /\ srvRubrics' = srvRubrics \cup {id}
    /\ requests' = Send(FetchDataReq) (-) SetToBag({r})
    /\ view' = SetState(view, "select")
    /\ alert' = NoAlert
    /\ UNCHANGED <<calls, platform, otherScreens, mounted, loading, rubrics, subjects, ollamaStatus,
                   selectedRubric, selectedSubject, rubricName, difficulty, jobId,
                   jobData, elapsed, pollRef, timerRef, intervals, srvJob, terminalSeen>>

\* generate.tsx:88-90  createRubric rejected.
CreateRubricRejects(r) ==
    /\ r \in Pending("createRubric")
    /\ requests' = Settle(r)
    /\ alert' = "Failed to create rubric"
    /\ UNCHANGED <<calls, platform, otherScreens, generateVars>>

\* generate.tsx:141-153,222  the trash icon of a rubric card, confirmed by the user
\* (window.confirm on web, the Delete button of the Alert elsewhere).
HandleDeleteRubric(id) ==
    /\ mounted /\ view = "select" /\ ~loading /\ id \in rubrics
    /\ InFlight < MaxInflight
    /\ requests' = Send(Req("deleteRubric", id, 0, <<>>))
    /\ alert' = NoAlert
    /\ UNCHANGED <<calls, platform, otherScreens, generateVars>>

\* generate.tsx:144,151  deleteRubric resolved: fetchData().
DeleteRubricResolves(r) ==
    /\ r \in Pending("deleteRubric")
    /\ srvRubrics' = srvRubrics \ {r.a}
    /\ requests' = Send(FetchDataReq) (-) SetToBag({r})
    /\ alert' = NoAlert
    /\ UNCHANGED <<calls, platform, otherScreens, mounted, view, loading, rubrics, subjects,
                   ollamaStatus, selectedRubric, selectedSubject, rubricName, difficulty,
                   jobId, jobData, elapsed, pollRef, timerRef, intervals, srvJob,
                   terminalSeen>>

\* generate.tsx:144  web: .catch(() => Alert.alert('Error', 'Failed to delete'));
\* generate.tsx:151  native: the async onPress has no catch, the rejection is unhandled.
DeleteRubricRejectedAlert == IF platform = "web" THEN "Failed to delete" ELSE NoAlert

DeleteRubricRejects(r) ==
    /\ r \in Pending("deleteRubric")
    /\ requests' = Settle(r)
    /\ alert' = DeleteRubricRejectedAlert
    /\ UNCHANGED <<calls, platform, otherScreens, generateVars>>

\* api.ts:213-217  startGeneration = (rubricId, subjectId) => POST /api/generate/
\* with body { rubric_id, subject_id }.  args are the arguments of the call; the
\* function has two parameters, so a third argument is not read.
StartGenerationBody(args) == [rubric_id |-> args[1], subject_id |-> args[2]]

\* generate.tsx:93-101,267-269  Generate Questions: handleGenerate up to its await.
HandleGenerate ==
    /\ mounted /\ view = "select" /\ GenerateEnabled
    /\ IF selectedRubric = 0
       THEN /\ alert' = NoAlert
            /\ UNCHANGED requests
       ELSE IF selectedSubject = 0
       THEN /\ alert' = "Please select a subject first"
            /\ UNCHANGED requests
       ELSE /\ InFlight < MaxInflight
            /\ JobsCreated + Cardinality(Pending("startGeneration")) < MaxGenerations
            /\ requests' = Send(Req("startGeneration", selectedRubric, selectedSubject,
                    StartGenerationBody(<<selectedRubric, selectedSubject, difficulty>>)))
            /\ alert' = NoAlert
    /\ UNCHANGED <<calls, platform, otherScreens, generateVars>>

\* generate.tsx:102-126  startGeneration resolved with a new job: the state is set,
\* then the poll interval and the elapsed timer are started and stored in the refs.
StartGenerationResolves(r) ==
    /\ r \in Pending("startGeneration")
    /\ JobsCreated < MaxGenerations
    /\ LET job == JobsCreated + 1
       IN  /\ srvJob' = [srvJob EXCEPT ![job] = "running"]
           /\ jobId' = SetState(jobId, job)
           /\ jobData' = SetState(jobData, [job |-> job, status |-> "pending"])
           /\ pollRef' = job
           /\ timerRef' = job
           /\ intervals' = intervals \cup {Interval("poll", job), Interval("timer", job)}
    /\ elapsed' = SetState(elapsed, 0)
    /\ view' = SetState(view, "generating")
    /\ requests' = Settle(r)
    /\ alert' = NoAlert
    /\ UNCHANGED <<calls, platform, otherScreens, mounted, loading, rubrics, subjects, ollamaStatus,
                   selectedRubric, selectedSubject, rubricName, difficulty, srvRubrics,
                   terminalSeen>>

\* generate.tsx:127-129  startGeneration rejected.
StartGenerationRejects(r) ==
    /\ r \in Pending("startGeneration")
    /\ requests' = Settle(r)
    /\ alert' = "Failed to start generation"
    /\ UNCHANGED <<calls, platform, otherScreens, generateVars>>

\* The backend finishes a job.
ServerJobSettles(job, outcome) ==
    /\ srvJob[job] = "running"
    /\ srvJob' = [srvJob EXCEPT ![job] = outcome]
    /\ alert' = NoAlert
    /\ UNCHANGED <<calls, platform, otherScreens, requests, mounted, view, loading, rubrics, subjects,
                   ollamaStatus, selectedRubric, selectedSubject, rubricName, difficulty,
                   jobId, jobData, elapsed, pollRef, timerRef, intervals, srvRubrics,
                   terminalSeen>>

\* generate.tsx:108-110  a tick of a poll interval: pollJob(result.job_id) is called
\* for the job the interval was started for.  b records whether the job was still
\* running when the request left.
PollTick(i) ==
    /\ i \in intervals /\ i.kind = "poll"
    /\ InFlight < MaxInflight
    /\ requests' = Send(Req("pollJob", i.job, IF srvJob[i.job] = "running" THEN 1 ELSE 0, <<>>))
    /\ alert' = NoAlert
    /\ UNCHANGED <<calls, platform, otherScreens, generateVars>>

\* The statuses the backend may have answered a poll with.
PollAnswers(r) == (IF r.b = 1 THEN {"running"} ELSE {}) \cup {srvJob[r.a]}

\* generate.tsx:111-119  pollJob resolved with job.
PollResolves(r, status) ==
    /\ r \in Pending("pollJob")
    /\ status \in PollAnswers(r)
    /\ requests' = Settle(r)
    /\ jobData' = SetState(jobData, [job |-> r.a, status |-> status])
    /\ intervals' = IF status \in Terminal THEN ClearBoth(intervals) ELSE intervals
    /\ view' = IF status = "completed" THEN SetState(view, "complete") ELSE view
    /\ terminalSeen' = IF status \in Terminal THEN terminalSeen \cup {r.a} ELSE terminalSeen
    /\ alert' = NoAlert
    /\ lastSettled' = [kind |-> r.kind, outcome |-> "resolved"]
    /\ UNCHANGED <<calls, platform, detailVars, vettingVars, trainingVars, formVars, mounted, loading, rubrics, subjects, ollamaStatus,
                   selectedRubric, selectedSubject, rubricName, difficulty, jobId,
                   elapsed, pollRef, timerRef, srvRubrics, srvJob>>

\* Mutant: the catch of the poll callback stops the polling.
PollRejectsStopsPolling(r) ==
    /\ r \in Pending("pollJob")
    /\ requests' = Settle(r)
    /\ intervals' = ClearBoth(intervals)
    /\ alert' = NoAlert
    /\ lastSettled' = [kind |-> r.kind, outcome |-> "rejected"]
    /\ UNCHANGED <<calls, platform, detailVars, vettingVars, trainingVars, formVars, mounted, view,
                   loading, rubrics, subjects, ollamaStatus, selectedRubric,
                   selectedSubject, rubricName, difficulty, jobId, jobData, elapsed,
                   pollRef, timerRef, srvRubrics, srvJob, terminalSeen>>

\* generate.tsx:120  pollJob rejected: catch (e) { }.
PollRejects(r) ==
    /\ r \in Pending("pollJob")
    /\ requests' = Settle(r)
    /\ alert' = NoAlert
    /\ lastSettled' = [kind |-> r.kind, outcome |-> "rejected"]
    /\ UNCHANGED <<calls, platform, detailVars, vettingVars, trainingVars, formVars, generateVars>>

\* generate.tsx:124-126  a tick of an elapsed timer: setElapsed(prev => prev + 1).
TimerTick(i) ==
    /\ i \in intervals /\ i.kind = "timer"
    /\ mounted /\ elapsed < MaxElapsed
    /\ elapsed' = elapsed + 1
    /\ alert' = NoAlert
    /\ UNCHANGED <<calls, platform, otherScreens, requests, mounted, view, loading, rubrics, subjects,
                   ollamaStatus, selectedRubric, selectedSubject, rubricName, difficulty,
                   jobId, jobData, pollRef, timerRef, intervals, srvRubrics, srvJob,
                   terminalSeen>>

\* generate.tsx:365-374  Try Again, rendered when jobData.status is 'failed'.
PressTryAgain ==
    /\ mounted /\ view = "generating" /\ jobData.status = "failed"
    /\ view' = "select"
    /\ intervals' = ClearBoth(intervals)
    /\ alert' = NoAlert
    /\ UNCHANGED <<calls, platform, otherScreens, requests, mounted, loading, rubrics, subjects,
                   ollamaStatus, selectedRubric, selectedSubject, rubricName, difficulty,
                   jobId, jobData, elapsed, pollRef, timerRef, srvRubrics, srvJob,
                   terminalSeen>>

\* generate.tsx:453  Generate Another.
PressGenerateAnother ==
    /\ mounted /\ view = "complete"
    /\ InFlight < MaxInflight
    /\ view' = "select"
    /\ selectedRubric' = 0
    /\ selectedSubject' = 0
    /\ requests' = Send(FetchDataReq)
    /\ alert' = NoAlert
    /\ UNCHANGED <<calls, platform, otherScreens, mounted, loading, rubrics, subjects, ollamaStatus,
                   rubricName, difficulty, jobId, jobData, elapsed, pollRef, timerRef,
                   intervals, srvRubrics, srvJob, terminalSeen>>

\* generate.tsx:59-64  the cleanup of the mount effect.
Unmount ==
    /\ mounted
    /\ mounted' = FALSE
    /\ intervals' = ClearBoth(intervals)
    /\ alert' = NoAlert
    /\ UNCHANGED <<calls, platform, otherScreens, requests, view, loading, rubrics, subjects,
                   ollamaStatus, selectedRubric, selectedSubject, rubricName, difficulty,
                   jobId, jobData, elapsed, pollRef, timerRef, srvRubrics, srvJob,
                   terminalSeen>>

\* The select and create views: the lists, the selections and the rubric form.
NextSelect ==
    \/ \E o \in {"available", "unavailable"} : FetchDataResolves(o)
    \/ FetchDataRejects
    \/ \E s \in SubjectIds : PressSubject(s)
    \/ \E r \in RubricIds : PressRubric(r)
    \/ \E level \in Difficulties : PressDifficulty(level)
    \/ PressCreateNewRubric
    \/ PressBack
    \/ \E name \in RubricNames : ChangeRubricName(name)
    \/ HandleCreateRubric
    \/ \E r \in BagToSet(requests) : CreateRubricResolves(r)
    \/ \E r \in BagToSet(requests) : CreateRubricRejects(r)
    \/ \E id \in RubricIds : HandleDeleteRubric(id)
    \/ \E r \in BagToSet(requests) : DeleteRubricResolves(r)
    \/ \E r \in BagToSet(requests) : DeleteRubricRejects(r)
    \/ HandleGenerate
    \/ \E r \in BagToSet(requests) : StartGenerationRejects(r)
    \/ Unmount

SpecSelect == InitGenerate /\ [][NextSelect]_vars

\* A state the screen reaches from InitGenerate: the data has loaded, a rubric name
\* was typed in the create view before going back, a rubric and a subject are selected.
InitGeneration ==
    /\ calls = <<>>
    /\ alert = NoAlert
    /\ platform = "native"
    /\ requests = EmptyBag
    /\ mounted = TRUE /\ view = "select" /\ loading = FALSE
    /\ rubrics = {1} /\ subjects = SubjectIds /\ ollamaStatus = "available"
    /\ selectedRubric = 1 /\ selectedSubject = 1 /\ rubricName = <<" ", "a", " ">>
    /\ difficulty = "Medium" /\ jobId = 0 /\ jobData = [job |-> 0, status |-> "null"]
    /\ elapsed = 0 /\ pollRef = 0 /\ timerRef = 0 /\ intervals = {}
    /\ srvRubrics = {1}
    /\ srvJob = [j \in 1..MaxGenerations |-> "none"]
    /\ terminalSeen = {}
    /\ DetailIdle /\ VettingIdle /\ lastSettled = NoneSettled /\ TrainingIdle /\ FormsIdle

\* Generation: the job, its poll interval and its elapsed timer, with the view
\* changes that can interleave with them.
NextGeneration ==
    \/ HandleGenerate
    \/ \E r \in BagToSet(requests) : StartGenerationResolves(r)
    \/ \E r \in BagToSet(requests) : StartGenerationRejects(r)
    \/ \E job \in DOMAIN srvJob, outcome \in Terminal : ServerJobSettles(job, outcome)
    \/ \E i \in intervals : PollTick(i)
    \/ \E r \in BagToSet(requests), status \in {"running", "completed", "failed"} :
            PollResolves(r, status)
    \/ \E r \in BagToSet(requests) : PollRejects(r)
    \/ \E i \in intervals : TimerTick(i)
    \/ PressTryAgain
    \/ PressGenerateAnother
    \/ PressCreateNewRubric
    \/ PressBack
    \/ \E o \in {"available", "unavailable"} : FetchDataResolves(o)
    \/ FetchDataRejects
    \/ \E s \in SubjectIds : PressSubject(s)
    \/ \E r \in RubricIds : PressRubric(r)
    \/ Unmount

SpecGeneration == InitGeneration /\ [][NextGeneration]_vars

\* A generation and its polling while the screen stays mounted, from the press of
\* Generate to the end of the job, without the other buttons of the select and the
\* complete views.
NextPolling ==
    \/ HandleGenerate
    \/ \E r \in BagToSet(requests) : StartGenerationResolves(r)
    \/ \E r \in BagToSet(requests) : StartGenerationRejects(r)
    \/ \E job \in DOMAIN srvJob, outcome \in Terminal : ServerJobSettles(job, outcome)
    \/ \E i \in intervals : PollTick(i)
    \/ \E r \in BagToSet(requests), status \in {"running", "completed", "failed"} :
            PollResolves(r, status)
    \/ \E r \in BagToSet(requests) : PollRejects(r)
    \/ \E i \in intervals : TimerTick(i)
    \/ PressTryAgain

SpecPolling == InitGeneration /\ [][NextPolling]_vars

(***************************************************************************)
(*                    Claims about the Generate screen                     *)
(***************************************************************************)

\* A request of this kind leaves in the step.
SentInStep(kind) ==
    \E r \in BagToSet(requests') :
        r.kind = kind /\ CopiesIn(r, requests') > CopiesIn(r, requests)

\* C2: a createRubric request leaves only from the create view with a rubric name
\* that is non-empty after trimming, and carries the trimmed name; a Save attempt
\* that is blocked (it shows 'Rubric name is required') sends nothing and leaves
\* the view at 'create' and the rubric lists as they were.
C2_SaveNeedsName ==
    [][/\ SentInStep("createRubric") =>
            /\ view = "create"
            /\ Trim(rubricName) # <<>>
            /\ \A r \in Pending("createRubric")' : r.name # <<>> /\ r.name = Trim(r.name)
       /\ alert' = "Rubric name is required" =>
            /\ Trim(rubricName) = <<>>
            /\ requests' = requests
            /\ view = "create" /\ view' = "create"
            /\ rubrics' = rubrics /\ srvRubrics' = srvRubrics]_vars

C2_Witness ==
    /\ alert = "Rubric name is required"
    /\ rubricName = <<" ">>
    /\ view = "create"
    /\ rubrics # {}

\* C5: once the client has processed a terminal poll response of a job, no
\* interval of that job (poll or elapsed timer) is running and no further
\* pollJob request leaves for that job.
C5_PollerStopsAtTerminal ==
    [][\A job \in terminalSeen' :
        /\ \A i \in intervals' : i.job # job
        /\ job \in terminalSeen =>
            \A r \in Pending("pollJob")' :
                r.a = job => CopiesIn(r, requests') <= CopiesIn(r, requests)]_vars

\* C6: once the screen has unmounted, none of the intervals it started while it
\* was mounted is still running.
C6_NoIntervalAfterUnmount ==
    ~mounted => \A i \in intervals : ~i.live

\* C7: while the screen shows 'select', 'create' or 'complete', neither the job
\* poll interval nor the elapsed timer is running.
C7_TimersOnlyWhileGenerating ==
    (mounted /\ view # "generating") => intervals = {}


(***************************************************************************)
(*        The mutating handlers of the screens and their catch clauses     *)
(***************************************************************************)

\* The api functions the handlers await (api.ts:74-255), by the screen that calls them.
GenerateMutations == {"createRubric", "deleteRubric", "startGeneration"}
SubjectsMutations == {"createSubject", "deleteSubject"}
DetailMutations ==
    {"createUnit", "deleteUnit", "createTopic", "deleteTopic", "uploadMaterial",
     "deleteMaterial", "updateTopicSyllabus", "createLO", "updateLO", "deleteLO",
     "createCO", "updateCO", "deleteCO", "uploadSampleQuestions", "updateUnitCOMapping"}
VettingMutations == {"submitVetting"}
TrainingMutations == {"startTraining"}
Mutations ==
    GenerateMutations \cup SubjectsMutations \cup DetailMutations
        \cup VettingMutations \cup TrainingMutations

\* e.message of the error a rejected request carries: the TypeError of fetch or the
\* Error thrown at api.ts:54.
ErrorMessages == {"Network request failed", "API Error: 500 Internal Server Error"}

\* a || b on strings.
OrElse(a, b) == IF a # "" THEN a ELSE b

\* generate.tsx:88-90,127-129,144,151
GenerateRejectedAlert(f, msg) ==
    CASE f = "createRubric" -> "Failed to create rubric"
      [] f = "startGeneration" -> "Failed to start generation"
      [] f = "deleteRubric" -> DeleteRubricRejectedAlert

\* subjects/index.tsx:60-62,75-77  both handlers catch and alert; handleDelete has
\* one confirmation path for every platform.
SubjectsRejectedAlert(f, msg) ==
    CASE f = "createSubject" -> "Failed to create subject"
      [] f = "deleteSubject" -> "Failed to delete"

\* _layout.tsx:147-181,313-324,362-373  handleDeleteUnit, handleDeleteTopic,
\* handleDeleteLO, handleDeleteCO.  web: .catch(console.error); native: the async
\* onPress has no catch.
DeleteLoggedAlert == IF platform = "web" THEN NoAlert ELSE NoAlert

\* _layout.tsx:246-257  handleDeleteMaterial.  web: .catch(() => Alert.alert(...));
\* native: the async onPress has no catch.
DeleteMaterialRejectedAlert == IF platform = "web" THEN "Failed to delete" ELSE NoAlert

\* _layout.tsx:239-241,280-282,296,344,396-398,425,435,444
DetailRejectedAlert(f, msg) ==
    CASE f \in {"deleteUnit", "deleteTopic", "deleteLO", "deleteCO"} -> DeleteLoggedAlert
      [] f = "deleteMaterial" -> DeleteMaterialRejectedAlert
      [] f = "uploadMaterial" -> "Upload failed"
      [] f = "updateTopicSyllabus" -> "Failed to save"
      [] f \in {"createLO", "updateLO"} -> "Failed to save LO"
      [] f \in {"createCO", "updateCO"} -> "Failed to save CO"
      [] f = "uploadSampleQuestions" -> OrElse(msg, "Failed to upload sample questions")
      [] f = "updateUnitCOMapping" -> "Failed to save mapping"
      [] f = "createUnit" -> "Failed to create unit"
      [] f = "createTopic" -> "Failed to create topic"

\* vetting.tsx:543-545
VettingRejectedAlert(f, msg) == OrElse(msg, "Failed to submit")

\* TrainingDashboard handleStartTraining: catch (e) { Alert.alert('Error', e.message || ...) }
TrainingRejectedAlert(f, msg) == OrElse(msg, "Failed to start training")

\* The alert the handler that awaited f shows when f rejects with message msg.
RejectedAlert(f, msg) ==
    CASE f \in GenerateMutations -> GenerateRejectedAlert(f, msg)
      [] f \in SubjectsMutations -> SubjectsRejectedAlert(f, msg)
      [] f \in DetailMutations -> DetailRejectedAlert(f, msg)
      [] f \in VettingMutations -> VettingRejectedAlert(f, msg)
      [] f \in TrainingMutations -> TrainingRejectedAlert(f, msg)

\* The alert the handler shows when f resolves (_layout.tsx:279,394; vetting.tsx:542).
ResolvedAlert(f) ==
    CASE f = "updateTopicSyllabus" -> "Bloom's taxonomy saved"
      [] f = "uploadSampleQuestions" -> "Imported questions"
      [] f = "submitVetting" -> "Question vetted and saved to dataset."
      [] OTHER -> NoAlert

\* A handler runs up to the await of its request (a delete handler: after the user
\* confirmed in window.confirm or in the Alert).
MutationSent(f) ==
    /\ InFlight < MaxInflight
    /\ requests' = Send(Req(f, 0, 0, <<>>))
    /\ alert' = NoAlert
    /\ lastSettled' = NoneSettled
    /\ UNCHANGED <<calls, platform, trainingVars, formVars, generateVars, detailVars, vettingVars>>

\* The request resolved: the handler continues after its await.
MutationResolves(r) ==
    /\ r \in BagToSet(requests) /\ r.kind \in Mutations
    /\ requests' = Settle(r)
    /\ alert' = ResolvedAlert(r.kind)
    /\ lastSettled' = [kind |-> r.kind, outcome |-> "resolved"]
    /\ UNCHANGED <<calls, platform, trainingVars, formVars, generateVars, detailVars, vettingVars>>

\* The request rejected: the catch clause of the handler runs, if it has one.
MutationRejects(r, msg) ==
    /\ r \in BagToSet(requests) /\ r.kind \in Mutations
    /\ requests' = Settle(r)
    /\ alert' = RejectedAlert(r.kind, msg)
    /\ lastSettled' = [kind |-> r.kind, outcome |-> "rejected"]
    /\ UNCHANGED <<calls, platform, trainingVars, formVars, generateVars, detailVars, vettingVars>>

InitMutations ==
    /\ calls = <<>>
    /\ alert = NoAlert
    /\ platform \in Platforms
    /\ requests = EmptyBag
    /\ GenerateIdle /\ DetailIdle /\ VettingIdle /\ lastSettled = NoneSettled /\ TrainingIdle /\ FormsIdle

NextMutations ==
    \/ \E f \in Mutations : MutationSent(f)
    \/ \E r \in BagToSet(requests) : MutationResolves(r)
    \/ \E r \in BagToSet(requests), msg \in ErrorMessages : MutationRejects(r, msg)

SpecMutations == InitMutations /\ [][NextMutations]_vars

\* C8: whenever a user-initiated mutating request is rejected, an alert is shown,
\* on the web and on the native confirmation path of the delete handlers.
C8_RejectedMutationAlerts ==
    (lastSettled.outcome = "rejected" /\ lastSettled.kind \in Mutations)
        => alert # NoAlert

(***************************************************************************)
(*   Bloom's weights: the Bloom's Taxonomy modal of the subject-detail     *)
(*   screen (_layout.tsx) and SyllabusUploadDialog                         *)
(***************************************************************************)

\* Slider changes the model follows, over both screens.
MaxSliderMoves == 2

TopicIds == {1}

\* <Slider minimumValue={0} maximumValue={100} step={5}>
SliderMin == 0
SliderMax == 100
SliderStep == 5
SliderStops == {v \in SliderMin..SliderMax : (v - SliderMin) % SliderStep = 0}
\* The values a slider at cur reports next: a drag passes the stops one by one.
NextStops(cur) == {v \in SliderStops : v = cur + SliderStep \/ v = cur - SliderStep}

\* Object.values(weights).reduce((a, b) => a + b, 0)
RECURSIVE TotalWeight(_)
TotalWeight(w) == IF w = <<>> THEN 0 ELSE Head(w) + TotalWeight(Tail(w))

FetchAllReq == Req("fetchAll", 0, 0, <<>>)

\* _layout.tsx:260-269  the Bloom's button of a topic.
OpenSyllabusModal(topic) ==
    /\ ~syllabusModal /\ ~dialogVisible
    /\ activeTopicForSyllabus' = topic
    /\ bloomDistribution' = IF topicBloom # <<>> THEN topicBloom ELSE BloomDefault
    /\ syllabusModal' = TRUE
    /\ alert' = NoAlert /\ saved' = <<>>
    /\ UNCHANGED <<calls, platform, trainingVars, formVars, requests, generateVars, vettingVars, lastSettled,
                   topicBloom, srvBloom, dialogVisible, weights, moves>>

\* _layout.tsx:763,770  the backdrop or the X of the modal.
CloseSyllabusModal ==
    /\ syllabusModal
    /\ syllabusModal' = FALSE
    /\ alert' = NoAlert /\ saved' = <<>>
    /\ UNCHANGED <<calls, platform, trainingVars, formVars, requests, generateVars, vettingVars, lastSettled,
                   activeTopicForSyllabus, bloomDistribution, topicBloom, srvBloom,
                   dialogVisible, weights, moves>>

\* _layout.tsx:782-789  a slider of the modal reports a new value.
SlideBloom(level, val) ==
    /\ syllabusModal /\ moves < MaxSliderMoves
    /\ val \in NextStops(bloomDistribution[level])
    /\ bloomDistribution' = [bloomDistribution EXCEPT ![level] = val]
    /\ moves' = moves + 1
    /\ alert' = NoAlert /\ saved' = <<>>
    /\ UNCHANGED <<calls, platform, trainingVars, formVars, requests, generateVars, vettingVars, lastSettled,
                   syllabusModal, activeTopicForSyllabus, topicBloom, srvBloom,
                   dialogVisible, weights>>

\* _layout.tsx:271-276,793  Save Configuration: handleSaveSyllabus up to its await.
HandleSaveSyllabus ==
    /\ syllabusModal
    /\ IF activeTopicForSyllabus = 0
       THEN UNCHANGED requests
       ELSE /\ InFlight < MaxInflight
            /\ requests' = Send(Req("updateTopicSyllabus", activeTopicForSyllabus, 0,
                                    bloomDistribution))
    /\ alert' = NoAlert /\ saved' = <<>>
    /\ UNCHANGED <<calls, platform, trainingVars, formVars, generateVars, vettingVars, lastSettled,
                   syllabusModal, activeTopicForSyllabus, bloomDistribution, topicBloom,
                   srvBloom, dialogVisible, weights, moves>>

\* _layout.tsx:277-279  updateTopicSyllabus resolved: the backend stored the
\* distribution; setSyllabusModal(false); fetchAll(); the Success alert.
SaveSyllabusResolves(r) ==
    /\ r \in Pending("updateTopicSyllabus")
    /\ srvBloom' = r.name
    /\ saved' = r.name
    /\ syllabusModal' = FALSE
    /\ requests' = Send(FetchAllReq) (-) SetToBag({r})
    /\ alert' = "Bloom's taxonomy saved"
    /\ UNCHANGED <<calls, platform, trainingVars, formVars, generateVars, vettingVars, lastSettled,
                   activeTopicForSyllabus, bloomDistribution, topicBloom, dialogVisible,
                   weights, moves>>

\* _layout.tsx:280-282  updateTopicSyllabus rejected.
SaveSyllabusRejects(r) ==
    /\ r \in Pending("updateTopicSyllabus")
    /\ requests' = Settle(r)
    /\ alert' = "Failed to save" /\ saved' = <<>>
    /\ UNCHANGED <<calls, platform, trainingVars, formVars, generateVars, vettingVars, lastSettled,
                   syllabusModal, activeTopicForSyllabus, bloomDistribution, topicBloom,
                   srvBloom, dialogVisible, weights, moves>>

\* _layout.tsx:123-132  fetchAll resolved: the subject, with the syllabus data of
\* its topics, is replaced.
FetchAllResolves ==
    /\ BagIn(FetchAllReq, requests)
    /\ requests' = Settle(FetchAllReq)
    /\ topicBloom' = srvBloom
    /\ alert' = NoAlert /\ saved' = <<>>
    /\ UNCHANGED <<calls, platform, trainingVars, formVars, generateVars, vettingVars, lastSettled,
                   syllabusModal, activeTopicForSyllabus, bloomDistribution, srvBloom,
                   dialogVisible, weights, moves>>

\* _layout.tsx:136-138  fetchAll rejected: the alert is commented out.
FetchAllRejects ==
    /\ BagIn(FetchAllReq, requests)
    /\ requests' = Settle(FetchAllReq)
    /\ alert' = NoAlert /\ saved' = <<>>
    /\ UNCHANGED <<calls, platform, trainingVars, formVars, generateVars, vettingVars, lastSettled, detailVars>>

\* QuestionUploadDialog.tsx:126-130,161  the parent shows the dialog.
OpenDialog ==
    /\ ~dialogVisible /\ ~syllabusModal
    /\ dialogVisible' = TRUE
    /\ alert' = NoAlert /\ saved' = <<>>
    /\ UNCHANGED <<calls, platform, trainingVars, formVars, requests, generateVars, vettingVars, lastSettled,
                   syllabusModal, activeTopicForSyllabus, bloomDistribution, topicBloom,
                   srvBloom, weights, moves>>

\* QuestionUploadDialog.tsx:161  onRequestClose, or the X of the header: onClose.
CloseDialog ==
    /\ dialogVisible
    /\ dialogVisible' = FALSE
    /\ alert' = NoAlert /\ saved' = <<>>
    /\ UNCHANGED <<calls, platform, trainingVars, formVars, requests, generateVars, vettingVars, lastSettled,
                   syllabusModal, activeTopicForSyllabus, bloomDistribution, topicBloom,
                   srvBloom, weights, moves>>

\* QuestionUploadDialog.tsx:154-156,230-240  updateWeight from a slider of the dialog.
UpdateWeight(level, val) ==
    /\ dialogVisible /\ moves < MaxSliderMoves
    /\ val \in NextStops(weights[level])
    /\ weights' = [weights EXCEPT ![level] = val]
    /\ moves' = moves + 1
    /\ alert' = NoAlert /\ saved' = <<>>
    /\ UNCHANGED <<calls, platform, trainingVars, formVars, requests, generateVars, vettingVars, lastSettled,
                   syllabusModal, activeTopicForSyllabus, bloomDistribution, topicBloom,
                   srvBloom, dialogVisible>>

\* QuestionUploadDialog.tsx:158,252  disabled={totalWeight !== 100}
SaveMappingDisabled == TotalWeight(weights) # 100

\* QuestionUploadDialog.tsx:250-258  Save Mapping: onClose, when the button is enabled.
PressSaveMapping ==
    /\ dialogVisible /\ ~SaveMappingDisabled
    /\ dialogVisible' = FALSE
    /\ saved' = weights
    /\ alert' = NoAlert
    /\ UNCHANGED <<calls, platform, trainingVars, formVars, requests, generateVars, vettingVars, lastSettled,
                   syllabusModal, activeTopicForSyllabus, bloomDistribution, topicBloom,
                   srvBloom, weights, moves>>

\* _layout.tsx:93-97,121  the subject-detail screen after its mount effect called
\* fetchAll; QuestionUploadDialog.tsx:143  the dialog with its default weights.
InitBlooms ==
    /\ calls = <<>>
    /\ alert = NoAlert
    /\ platform = "native"
    /\ requests = SetToBag({FetchAllReq})
    /\ GenerateIdle /\ DetailIdle /\ VettingIdle /\ lastSettled = NoneSettled /\ TrainingIdle /\ FormsIdle

NextBlooms ==
    \/ \E topic \in TopicIds : OpenSyllabusModal(topic)
    \/ CloseSyllabusModal
    \/ \E level \in DOMAIN BloomLevels, val \in SliderStops : SlideBloom(level, val)
    \/ HandleSaveSyllabus
    \/ \E r \in BagToSet(requests) : SaveSyllabusResolves(r)
    \/ \E r \in BagToSet(requests) : SaveSyllabusRejects(r)
    \/ FetchAllResolves
    \/ FetchAllRejects
    \/ OpenDialog
    \/ CloseDialog
    \/ \E level \in DOMAIN BloomLevels, val \in SliderStops : UpdateWeight(level, val)
    \/ PressSaveMapping

SpecBlooms == InitBlooms /\ [][NextBlooms]_vars

\* C3: on every save path of a topic's Bloom's weights (Save Mapping of the dialog,
\* Save Configuration of the modal, which calls updateTopicSyllabus) the save takes
\* effect only when the six weights sum to exactly 100.
C3_SaveNeedsSum100 ==
    /\ saved # <<>> => TotalWeight(saved) = 100
    /\ \A r \in Pending("updateTopicSyllabus") : TotalWeight(r.name) = 100

(***************************************************************************)
(*                app/(tabs)/vetting.tsx : QuestionReviewView              *)
(***************************************************************************)

\* Questions pending in the batch when it is opened.
MaxQueue == 2

CoIds == {1, 2}
CoLevelNames == {"low", "moderate", "high"}
Actions == {"approve", "reject", "edit"}
\* vetting.tsx:503-506  two of the seven rejection reasons; null is "null".
RejectionReasons == {"Incorrect Concept", "Other"}
\* Texts of the feedback input: empty, shorter than five characters, five blanks,
\* five letters.
Feedbacks ==
    {<<>>, <<"b", "a", "d">>, <<" ", " ", " ", " ", " ">>, <<"w", "r", "o", "n", "g">>}
Undefined == <<"undefined">>

SelectActionAlert == "Choose Approve, Reject, or Edit"
CoRequiredAlert ==
    "You must map this question to at least one Course Outcome (CO) before submitting."
ReasonRequiredAlert == "Please select a Rejection Reason."
FeedbackRequiredAlert == "Please provide constructive feedback for rejection."
VettedAlert == "Question vetted and saved to dataset."

FetchQueueReq == Req("fetchQueue", 0, 0, <<>>)
CoListReq == Req("getSubjectDetail", 0, 0, <<>>)

\* vetting.tsx:456  const current = queue[currentIndex]; 0 stands for undefined.
Current == IF currentIndex < Len(queue) THEN queue[currentIndex + 1] ELSE 0

\* vetting.tsx:603,611,618  the question card is rendered.
CardShown ==
    /\ ~(~isHistory /\ (allReviewed \/ queue = <<>>))
    /\ queue # <<>>
    /\ Current # 0

\* Mutant: the vetting controls are rendered for history batches too.
ControlsShownInHistory == CardShown

\* vetting.tsx:757  {!isHistory && ( ... the vetting controls ... )}
ControlsShown == CardShown /\ ~isHistory

\* splice(i, 1) / filter((_, j) => j !== i) with a 0-based index i.
RemoveAt(q, i) == [k \in 1..(Len(q) - (IF i < Len(q) THEN 1 ELSE 0)) |->
                        IF k <= i THEN q[k] ELSE q[k + 1]]

Without(q, id) == SelectSeq(q, LAMBDA x : x # id)

\* vetting.tsx:458-463  the effect of [current] asks for the subject's course
\* outcomes again; the answer is the same list, so the request is followed only
\* while the list has not loaded.
WithCoListReq(reqs) ==
    IF coList # {} \/ BagIn(CoListReq, reqs) THEN reqs ELSE reqs (+) SetToBag({CoListReq})

\* The ways the questions 1..MaxQueue of a fully vetted batch divide into approved
\* and rejected ones, each list in the order of the ids.
VettedSplits ==
    {[approved |-> SelectSeq([i \in 1..MaxQueue |-> i], LAMBDA x : x \in A),
      rejected |-> SelectSeq([i \in 1..MaxQueue |-> i], LAMBDA x : x \notin A)] :
        A \in SUBSET (1..MaxQueue)}

\* vetting.tsx:415,434-454  a batch was opened: the mount effects called fetchQueue
\* and getSubjectDetail.
InitVetting ==
    /\ calls = <<>>
    /\ alert = NoAlert
    /\ platform = "native"
    /\ requests = SetToBag({FetchQueueReq, CoListReq})
    /\ GenerateIdle /\ DetailIdle /\ lastSettled = NoneSettled /\ TrainingIdle /\ FormsIdle
    /\ isHistory \in BOOLEAN
    /\ queue = <<>> /\ currentIndex = 0 /\ action = "null"
    /\ selectedCos = <<>> /\ coLevels = {} /\ feedback = <<>>
    /\ rejectionReason = "null" /\ submitting = FALSE /\ allReviewed = FALSE
    /\ coList = {}
    /\ IF isHistory
       THEN srvPending = <<>> /\ srvVetted \in VettedSplits
       ELSE srvPending = [i \in 1..MaxQueue |-> i] /\ srvVetted = NoneVetted
    /\ submitted = <<>>

\* vetting.tsx:437-450  the queue request resolved; then the effect of [current]
\* (464-470) clears the form.
FetchQueueResolves ==
    /\ BagIn(FetchQueueReq, requests)
    /\ queue' = IF isHistory THEN srvVetted.approved \o srvVetted.rejected ELSE srvPending
    /\ currentIndex' = 0
    /\ allReviewed' = IF isHistory THEN FALSE ELSE srvPending = <<>>
    /\ selectedCos' = <<>> /\ coLevels' = {} /\ rejectionReason' = "null"
    /\ feedback' = <<>> /\ action' = "null"
    /\ requests' = WithCoListReq(Settle(FetchQueueReq))
    /\ alert' = NoAlert /\ submitted' = <<>>
    /\ UNCHANGED <<calls, platform, trainingVars, formVars, generateVars, detailVars, lastSettled, isHistory,
                   submitting, coList, srvPending,
                   srvVetted>>

\* vetting.tsx:451  catch (e) { }
FetchQueueRejects ==
    /\ BagIn(FetchQueueReq, requests)
    /\ requests' = Settle(FetchQueueReq)
    /\ alert' = NoAlert /\ submitted' = <<>>
    /\ UNCHANGED <<calls, platform, trainingVars, formVars, generateVars, detailVars, lastSettled, reviewVars>>

\* vetting.tsx:460-461  getSubjectDetail resolved: setCoList(sub.course_outcomes).
CoListResolves ==
    /\ BagIn(CoListReq, requests)
    /\ requests' = Settle(CoListReq)
    /\ coList' = CoIds
    /\ alert' = NoAlert /\ submitted' = <<>>
    /\ UNCHANGED <<calls, platform, trainingVars, formVars, generateVars, detailVars, lastSettled, isHistory,
                   queue, currentIndex, action, selectedCos, coLevels, feedback,
                   rejectionReason, submitting, allReviewed, srvPending,
                   srvVetted>>

\* vetting.tsx:462  .catch(() => { })
CoListRejects ==
    /\ BagIn(CoListReq, requests)
    /\ requests' = Settle(CoListReq)
    /\ alert' = NoAlert /\ submitted' = <<>>
    /\ UNCHANGED <<calls, platform, trainingVars, formVars, generateVars, detailVars, lastSettled, reviewVars>>

\* vetting.tsx:575  pull to refresh: fetchQueue().
Refresh ==
    /\ InFlight < MaxInflight
    /\ ~BagIn(FetchQueueReq, requests)
    /\ requests' = Send(FetchQueueReq)
    /\ alert' = NoAlert /\ submitted' = <<>>
    /\ UNCHANGED <<calls, platform, trainingVars, formVars, generateVars, detailVars, lastSettled, reviewVars>>

\* vetting.tsx:488-496,768  a CO chip is pressed.
ToggleCo(id) ==
    /\ ControlsShown /\ id \in coList
    /\ IF \E k \in DOMAIN selectedCos : selectedCos[k] = id
       THEN /\ selectedCos' = Without(selectedCos, id)
            /\ coLevels' = {m \in coLevels : m.co # id}
       ELSE /\ selectedCos' = Append(selectedCos, id)
            /\ coLevels' = {m \in coLevels : m.co # id} \cup {[co |-> id, level |-> "moderate"]}
    /\ alert' = NoAlert /\ submitted' = <<>>
    /\ UNCHANGED <<calls, platform, trainingVars, formVars, requests, generateVars, detailVars, lastSettled,
                   isHistory, queue, currentIndex, action, feedback, rejectionReason,
                   submitting, allReviewed, coList, srvPending,
                   srvVetted>>

\* vetting.tsx:498-501,797  a level button of a selected CO.
SetLevel(id, level) ==
    /\ ControlsShown
    /\ \E k \in DOMAIN selectedCos : selectedCos[k] = id
    /\ coLevels' = {m \in coLevels : m.co # id} \cup {[co |-> id, level |-> level]}
    /\ alert' = NoAlert /\ submitted' = <<>>
    /\ UNCHANGED <<calls, platform, trainingVars, formVars, requests, generateVars, detailVars, lastSettled,
                   isHistory, queue, currentIndex, action, selectedCos, feedback,
                   rejectionReason, submitting, allReviewed, coList, srvPending,
                   srvVetted>>

\* vetting.tsx:815-826  a rejection reason chip, shown when the action is reject.
SetRejectionReason(reason) ==
    /\ ControlsShown /\ action = "reject"
    /\ rejectionReason' = reason
    /\ alert' = NoAlert /\ submitted' = <<>>
    /\ UNCHANGED <<calls, platform, trainingVars, formVars, requests, generateVars, detailVars, lastSettled,
                   isHistory, queue, currentIndex, action, selectedCos, coLevels,
                   feedback, submitting, allReviewed, coList, srvPending,
                   srvVetted>>

\* vetting.tsx:831-838  the feedback input.
ChangeFeedback(text) ==
    /\ ControlsShown
    /\ feedback' = text
    /\ alert' = NoAlert /\ submitted' = <<>>
    /\ UNCHANGED <<calls, platform, trainingVars, formVars, requests, generateVars, detailVars, lastSettled,
                   isHistory, queue, currentIndex, action, selectedCos, coLevels,
                   rejectionReason, submitting, allReviewed, coList, srvPending,
                   srvVetted>>

\* vetting.tsx:842-853  Reject, Edit, Approve.
SetAction(a) ==
    /\ ControlsShown
    /\ action' = a
    /\ alert' = NoAlert /\ submitted' = <<>>
    /\ UNCHANGED <<calls, platform, trainingVars, formVars, requests, generateVars, detailVars, lastSettled,
                   isHistory, queue, currentIndex, selectedCos, coLevels, feedback,
                   rejectionReason, submitting, allReviewed, coList, srvPending,
                   srvVetted>>

\* Mutant: the CO check of handleSubmit is dropped.
CoMappingMissingNever(cos) == FALSE

\* vetting.tsx:510  if (selectedCos.length === 0)
CoMappingMissing(cos) == Len(cos) = 0

\* vetting.tsx:509-517  the alert of the first validation that fails, "" when all pass.
SubmitBlockedBy ==
    IF action = "null" THEN SelectActionAlert
    ELSE IF CoMappingMissing(selectedCos) THEN CoRequiredAlert
    ELSE IF action = "reject" /\ rejectionReason = "null" THEN ReasonRequiredAlert
    ELSE IF action = "reject" /\ (feedback = <<>> \/ Len(feedback) < 5)
         THEN FeedbackRequiredAlert
    ELSE NoAlert

\* vetting.tsx:520-530  the body of the submitVetting request: action, co_mappings,
\* co_mapping_levels, faculty_feedback, rejection_reason, edited_text.
VettingPayload ==
    <<CASE action = "approve" -> "approved" [] action = "reject" -> "rejected"
        [] OTHER -> "edited",
      selectedCos,
      coLevels,
      IF Trim(feedback) # <<>> THEN Trim(feedback) ELSE Undefined,
      rejectionReason,
      IF action = "edit" THEN feedback ELSE Undefined>>

\* vetting.tsx:508-520,859  Submit & Next: handleSubmit up to its await.  The request
\* keeps the queue and the currentIndex of the render the handler closed over.
HandleSubmit ==
    /\ ControlsShown /\ ~submitting /\ action # "null"
    /\ IF SubmitBlockedBy # NoAlert
       THEN /\ alert' = SubmitBlockedBy
            /\ submitted' = <<>>
            /\ UNCHANGED <<requests, submitting>>
       ELSE /\ InFlight < MaxInflight
            /\ submitting' = TRUE
            /\ requests' = Send(Req("submitVetting", Current, currentIndex, queue))
            /\ submitted' = VettingPayload
            /\ alert' = NoAlert
    /\ UNCHANGED <<calls, platform, trainingVars, formVars, generateVars, detailVars, lastSettled, isHistory,
                   queue, currentIndex, action, selectedCos, coLevels, feedback,
                   rejectionReason, allReviewed, coList, srvPending,
                   srvVetted>>

\* vetting.tsx:531-542,546  submitVetting resolved: the form is cleared and the
\* question is removed from the queue of the closure.
SubmitResolves(r) ==
    /\ r \in Pending("submitVetting")
    /\ srvPending' = Without(srvPending, r.a)
    /\ LET q == r.name
           idx == r.b
           newQueue == RemoveAt(q, idx)
       IN  /\ queue' = newQueue
           /\ IF idx < Len(q) - 1
              THEN UNCHANGED <<currentIndex, allReviewed>>
              ELSE IF newQueue = <<>>
                   THEN allReviewed' = TRUE /\ UNCHANGED currentIndex
                   ELSE /\ currentIndex' = IF idx - 1 > 0 THEN idx - 1 ELSE 0
                        /\ UNCHANGED allReviewed
    /\ feedback' = <<>> /\ action' = "null" /\ rejectionReason' = "null"
    /\ selectedCos' = <<>> /\ coLevels' = {}
    /\ submitting' = FALSE
    /\ requests' = WithCoListReq(Settle(r))
    /\ alert' = VettedAlert /\ submitted' = <<>>
    /\ UNCHANGED <<calls, platform, trainingVars, formVars, generateVars, detailVars, lastSettled, isHistory,
                   coList, srvVetted>>

\* Mutant: the catch of handleSubmit clears the chosen action.
SubmitRejectsClearsAction(r, msg) ==
    /\ r \in Pending("submitVetting")
    /\ requests' = Settle(r)
    /\ submitting' = FALSE
    /\ action' = "null"
    /\ alert' = VettingRejectedAlert(r.kind, msg) /\ submitted' = <<>>
    /\ UNCHANGED <<calls, platform, trainingVars, formVars, generateVars, detailVars, lastSettled, isHistory,
                   queue, currentIndex, selectedCos, coLevels, feedback,
                   rejectionReason, allReviewed, coList, srvPending, srvVetted>>

\* vetting.tsx:543-546  submitVetting rejected.
SubmitRejects(r, msg) ==
    /\ r \in Pending("submitVetting")
    /\ requests' = Settle(r)
    /\ submitting' = FALSE
    /\ alert' = VettingRejectedAlert(r.kind, msg) /\ submitted' = <<>>
    /\ UNCHANGED <<calls, platform, trainingVars, formVars, generateVars, detailVars, lastSettled, isHistory,
                   queue, currentIndex, action, selectedCos, coLevels, feedback,
                   rejectionReason, allReviewed, coList, srvPending,
                   srvVetted>>

\* vetting.tsx:873-878  Previous; the effect of [current] clears the form.
PressPrevious ==
    /\ CardShown /\ currentIndex > 0
    /\ currentIndex' = currentIndex - 1
    /\ selectedCos' = <<>> /\ coLevels' = {} /\ rejectionReason' = "null"
    /\ feedback' = <<>> /\ action' = "null"
    /\ requests' = WithCoListReq(requests)
    /\ alert' = NoAlert /\ submitted' = <<>>
    /\ UNCHANGED <<calls, platform, trainingVars, formVars, generateVars, detailVars, lastSettled, isHistory,
                   queue, submitting, allReviewed, coList, srvPending,
                   srvVetted>>

\* vetting.tsx:880-885  Next; the effect of [current] clears the form.
PressNext ==
    /\ CardShown /\ currentIndex < Len(queue) - 1
    /\ currentIndex' = currentIndex + 1
    /\ selectedCos' = <<>> /\ coLevels' = {} /\ rejectionReason' = "null"
    /\ feedback' = <<>> /\ action' = "null"
    /\ requests' = WithCoListReq(requests)
    /\ alert' = NoAlert /\ submitted' = <<>>
    /\ UNCHANGED <<calls, platform, trainingVars, formVars, generateVars, detailVars, lastSettled, isHistory,
                   queue, submitting, allReviewed, coList, srvPending,
                   srvVetted>>

\* vetting.tsx:446  the pending questions getVettingQueue('pending', batch.job_id)
\* returns change when a question of the batch is vetted from another session.
ServerVetsElsewhere(id) ==
    /\ ~isHistory
    /\ \E k \in DOMAIN srvPending : srvPending[k] = id
    /\ \A r \in Pending("submitVetting") : r.a # id
    /\ srvPending' = Without(srvPending, id)
    /\ alert' = NoAlert /\ submitted' = <<>>
    /\ UNCHANGED <<calls, platform, trainingVars, formVars, requests, generateVars, detailVars, lastSettled,
                   isHistory, queue, currentIndex, action, selectedCos, coLevels, feedback,
                   rejectionReason, submitting, allReviewed, coList, srvVetted>>

NextVetting ==
    \/ FetchQueueResolves
    \/ FetchQueueRejects
    \/ CoListResolves
    \/ CoListRejects
    \/ Refresh
    \/ \E id \in CoIds : ToggleCo(id)
    \/ \E id \in CoIds, level \in CoLevelNames : SetLevel(id, level)
    \/ \E reason \in RejectionReasons : SetRejectionReason(reason)
    \/ \E text \in Feedbacks : ChangeFeedback(text)
    \/ \E a \in Actions : SetAction(a)
    \/ HandleSubmit
    \/ \E r \in BagToSet(requests) : SubmitResolves(r)
    \/ \E r \in BagToSet(requests), msg \in ErrorMessages \cup {""} : SubmitRejects(r, msg)
    \/ PressPrevious
    \/ PressNext

SpecVetting == InitVetting /\ [][NextVetting]_vars

\* The review view of a batch that other sessions vet at the same time.
NextVettingShared ==
    \/ NextVetting
    \/ \E id \in 1..MaxQueue : ServerVetsElsewhere(id)

SpecVettingShared == InitVetting /\ [][NextVettingShared]_vars

\* C4: every submitVetting request, for each of the three actions, carries a
\* non-empty co_mappings list; a submit attempt with no CO selected sends no request
\* and leaves the queue, currentIndex and the entered form values unchanged.
C4_SubmitNeedsCo ==
    [][/\ SentInStep("submitVetting") <=> submitted' # <<>>
       /\ submitted' # <<>> =>
            /\ submitted'[2] # <<>>
            /\ submitted'[1] \in {"approved", "rejected", "edited"}
       /\ alert' = CoRequiredAlert =>
            /\ selectedCos = <<>>
            /\ requests' = requests
            /\ UNCHANGED <<queue, currentIndex, action, selectedCos, coLevels,
                           feedback, rejectionReason, srvPending>>]_vars

\* A submit with no CO selected was refused after an earlier question of the batch
\* had been vetted.
C4_Witness ==
    /\ alert = CoRequiredAlert /\ selectedCos = <<>> /\ action = "reject"
    /\ feedback # <<>> /\ coList # {}
    /\ Len(srvPending) < MaxQueue

(***************************************************************************)
(*                          TrainingDashboard                              *)
(***************************************************************************)

\* Trainings the backend starts in one run of the model.
MaxTrainings == 1

\* ['generating', 'evaluating_baseline', 'evaluating_skill']
ActiveStatuses == {"generating", "evaluating_baseline", "evaluating_skill"}
\* status && [...].includes(status.status); "null" stands for a null status.
IsActive(st) == st # "null" /\ st \in ActiveStatuses

\* stats?.ready_for_training of the stats the backend answers with.
StatsOf(ready) == IF ready THEN "ready" ELSE "short"

\* fetchData: Promise.all([getDatasetStats, getTrainingStatus]).  a is 1 when
\* handleStartTraining awaits it, b is 1 when the effect called it on seeing a
\* status that is not active; name is the status the backend held when it left
\* (the answer carries that status or the one held on arrival, and the stats held
\* on arrival).
TrFetchDataReq(fromStart, refresh) ==
    Req("trainingFetchData", fromStart, refresh, <<srvTraining>>)
StatusPollReq == Req("getTrainingStatus", 0, 0, <<srvTraining>>)

PollOf(st) == [kind |-> "poll", closure |-> st]
ElapsedTimer == [kind |-> "timer", closure |-> "null"]

\* Whether the refresh of the last non-active status seen has completed, once
\* request r is settled without a change of status.
QuietAfter(r) ==
    IF /\ quiet = "refreshing"
       /\ r.kind = "trainingFetchData" /\ r.b = 1
       /\ \A o \in BagToSet(Settle(r)) : ~(o.kind = "trainingFetchData" /\ o.b = 1)
    THEN "settled"
    ELSE quiet

\* setStatus(new) on settling request r, with the two effects of [status?.status]
\* that follow a change (part_000:39-79): the poll interval is replaced by one that
\* closes over the new status and fetchData is called; the elapsed timer is
\* restarted while the status is active and stopped otherwise.
SetStatus(r, new) ==
    IF ~trMounted
    THEN /\ requests' = Settle(r)
         /\ UNCHANGED <<trStatus, trElapsed, timerStart, timerInterval, trIntervals, quiet>>
    ELSE IF new = trStatus
    THEN /\ requests' = Settle(r)
         /\ quiet' = QuietAfter(r)
         /\ UNCHANGED <<trStatus, trElapsed, timerStart, timerInterval, trIntervals>>
    ELSE /\ trStatus' = new
         /\ requests' = Settle(r) (+) SetToBag({TrFetchDataReq(0, IF IsActive(new) THEN 0 ELSE 1)})
         /\ quiet' = IF IsActive(new) THEN "none" ELSE "refreshing"
         /\ IF IsActive(new)
            THEN /\ timerStart' = TRUE
                 /\ trElapsed' = IF timerStart THEN trElapsed ELSE 0
                 /\ timerInterval' = TRUE
                 /\ trIntervals' = {PollOf(new), ElapsedTimer}
            ELSE /\ timerStart' = FALSE
                 /\ timerInterval' = FALSE
                 /\ trIntervals' = {PollOf(new)}
                 /\ UNCHANGED trElapsed

\* part_000:14-22,39-48  the dashboard is mounted: the status effect has called
\* fetchData and started its interval; the status is null, so no timer runs.
InitTraining ==
    /\ calls = <<>>
    /\ alert = NoAlert
    /\ platform = "native"
    /\ GenerateIdle /\ DetailIdle /\ VettingIdle /\ lastSettled = NoneSettled
    /\ FormsIdle
    /\ trMounted = TRUE /\ trStats = "null" /\ trStatus = "null" /\ trLoading = TRUE
    /\ starting = FALSE /\ trElapsed = 0 /\ timerStart = FALSE
    /\ timerInterval = FALSE /\ trIntervals = {PollOf("null")}
    /\ srvTraining \in {"idle", "generating"}
    /\ srvReady \in BOOLEAN
    /\ requests = SetToBag({TrFetchDataReq(0, 0)})
    /\ trainings = 0 /\ quiet = "none"

\* part_000:24-37,91-95  fetchData resolved with the stats and the status; when
\* handleStartTraining awaited it, its finally follows.
TrFetchDataResolves(r, st, ready) ==
    /\ r \in Pending("trainingFetchData")
    /\ st \in {r.name[1], srvTraining}
    /\ ready = StatsOf(srvReady)
    /\ trStats' = IF trMounted THEN ready ELSE trStats
    /\ trLoading' = IF trMounted THEN FALSE ELSE trLoading
    /\ starting' = IF trMounted /\ r.a = 1 THEN FALSE ELSE starting
    /\ SetStatus(r, st)
    /\ alert' = NoAlert
    /\ UNCHANGED <<calls, platform, generateVars, detailVars, vettingVars, lastSettled, formVars,
                   trMounted, srvTraining, srvReady, trainings>>

\* part_000:32-36,94-96  fetchData rejected: console.error, then the finally.
TrFetchDataRejects(r) ==
    /\ r \in Pending("trainingFetchData")
    /\ requests' = Settle(r)
    /\ trLoading' = IF trMounted THEN FALSE ELSE trLoading
    /\ starting' = IF trMounted /\ r.a = 1 THEN FALSE ELSE starting
    /\ quiet' = IF trMounted THEN QuietAfter(r) ELSE quiet
    /\ alert' = NoAlert
    /\ UNCHANGED <<calls, platform, generateVars, detailVars, vettingVars, lastSettled, formVars,
                   trMounted, trStats, trStatus, trElapsed, timerStart, timerInterval,
                   trIntervals, srvTraining, srvReady, trainings>>

\* part_000:42-46  a tick of the poll interval whose closure holds an active status.
TrPollTick(i) ==
    /\ i \in trIntervals /\ i.kind = "poll" /\ IsActive(i.closure)
    /\ InFlight < MaxInflight
    /\ requests' = Send(StatusPollReq)
    /\ alert' = NoAlert
    /\ UNCHANGED <<calls, platform, generateVars, detailVars, vettingVars, lastSettled,
                   trainingVars, formVars>>

\* part_000:44  getTrainingStatus(subjectId).then(setStatus)
TrPollResolves(r, st) ==
    /\ r \in Pending("getTrainingStatus")
    /\ st \in {r.name[1], srvTraining}
    /\ SetStatus(r, st)
    /\ alert' = NoAlert
    /\ UNCHANGED <<calls, platform, generateVars, detailVars, vettingVars, lastSettled, formVars,
                   trMounted, trStats, trLoading, starting, srvTraining, srvReady,
                   trainings>>

\* part_000:44  .catch(() => { })
TrPollRejects(r) ==
    /\ r \in Pending("getTrainingStatus")
    /\ requests' = Settle(r)
    /\ alert' = NoAlert
    /\ UNCHANGED <<calls, platform, generateVars, detailVars, vettingVars, lastSettled,
                   trainingVars, formVars>>

\* part_000:62-66  a tick of the elapsed timer.
TrTimerTick ==
    /\ ElapsedTimer \in trIntervals /\ timerStart
    /\ trElapsed < MaxElapsed
    /\ trElapsed' = trElapsed + 1
    /\ alert' = NoAlert
    /\ UNCHANGED <<calls, platform, requests, generateVars, detailVars, vettingVars,
                   lastSettled, formVars, trMounted, trStats, trStatus, trLoading, starting,
                   timerStart, timerInterval, trIntervals, srvTraining, srvReady,
                   trainings, quiet>>

\* Mutant: the Start Training button is never disabled.
StartDisabledNever == FALSE

\* part_000:175  disabled={starting || !stats?.ready_for_training}
StartDisabled == starting \/ trStats # "ready"

\* part_000:87-90,111-113,147,173-175  Start Training / Retrain Model, rendered once
\* loaded and while no training is shown: handleStartTraining up to its await.
HandleStartTraining ==
    /\ trMounted /\ ~trLoading /\ ~IsActive(trStatus)
    /\ ~StartDisabled
    /\ InFlight < MaxInflight
    /\ trainings + Cardinality(Pending("startTraining")) < MaxTrainings
    /\ starting' = TRUE
    /\ requests' = Send(Req("startTraining", 0, 0, <<>>))
    /\ quiet' = "none"
    /\ alert' = NoAlert
    /\ UNCHANGED <<calls, platform, generateVars, detailVars, vettingVars, lastSettled, formVars,
                   trMounted, trStats, trStatus, trLoading, trElapsed, timerStart,
                   timerInterval, trIntervals, srvTraining, srvReady, trainings>>

\* part_000:90-91  startTraining resolved: the backend has started a training;
\* await fetchData().
StartTrainingResolves(r) ==
    /\ r \in Pending("startTraining")
    /\ srvTraining' = "generating"
    /\ trainings' = trainings + 1
    /\ requests' = Settle(r) (+)
            SetToBag({Req("trainingFetchData", 1, 0, <<"generating">>)})
    /\ alert' = NoAlert
    /\ UNCHANGED <<calls, platform, generateVars, detailVars, vettingVars, lastSettled, formVars,
                   trMounted, trStats, trStatus, trLoading, starting, trElapsed,
                   timerStart, timerInterval, trIntervals, srvReady, quiet>>

\* part_000:92-96  startTraining rejected: the alert, then the finally.
StartTrainingRejects(r, msg) ==
    /\ r \in Pending("startTraining")
    /\ requests' = Settle(r)
    /\ starting' = IF trMounted THEN FALSE ELSE starting
    /\ alert' = TrainingRejectedAlert(r.kind, msg)
    /\ UNCHANGED <<calls, platform, generateVars, detailVars, vettingVars, lastSettled, formVars,
                   trMounted, trStats, trStatus, trLoading, trElapsed, timerStart,
                   timerInterval, trIntervals, srvTraining, srvReady, trainings, quiet>>

\* The backend moves a training on, to the next stage or to failed.
ServerTrainingAdvances(next) ==
    /\ \/ srvTraining = "generating" /\ next = "evaluating_baseline"
       \/ srvTraining = "evaluating_baseline" /\ next = "evaluating_skill"
       \/ srvTraining = "evaluating_skill" /\ next = "complete"
       \/ srvTraining \in ActiveStatuses /\ next = "failed"
    /\ srvTraining' = next
    /\ alert' = NoAlert
    /\ UNCHANGED <<calls, platform, requests, generateVars, detailVars, vettingVars,
                   lastSettled, formVars, trMounted, trStats, trStatus, trLoading, starting,
                   trElapsed, timerStart, timerInterval, trIntervals, srvReady,
                   trainings, quiet>>

\* The backend's dataset reaches the number of approved questions training needs.
ServerDatasetReady ==
    /\ ~srvReady
    /\ srvReady' = TRUE
    /\ alert' = NoAlert
    /\ UNCHANGED <<calls, platform, requests, generateVars, detailVars, vettingVars,
                   lastSettled, formVars, trMounted, trStats, trStatus, trLoading, starting,
                   trElapsed, timerStart, timerInterval, trIntervals, srvTraining,
                   trainings, quiet>>

\* part_000:47,76-78  the cleanups of the two effects on unmount.
TrUnmount ==
    /\ trMounted
    /\ trMounted' = FALSE
    /\ trIntervals' = {}
    /\ alert' = NoAlert
    /\ UNCHANGED <<calls, platform, requests, generateVars, detailVars, vettingVars,
                   lastSettled, formVars, trStats, trStatus, trLoading, starting, trElapsed,
                   timerStart, timerInterval, srvTraining, srvReady, trainings, quiet>>

NextTraining ==
    \/ \E r \in BagToSet(requests), st \in ActiveStatuses \cup {"idle", "complete", "failed"},
          ready \in {"ready", "short"} : TrFetchDataResolves(r, st, ready)
    \/ \E r \in BagToSet(requests) : TrFetchDataRejects(r)
    \/ \E i \in trIntervals : TrPollTick(i)
    \/ \E r \in BagToSet(requests), st \in ActiveStatuses \cup {"idle", "complete", "failed"} :
            TrPollResolves(r, st)
    \/ \E r \in BagToSet(requests) : TrPollRejects(r)
    \/ TrTimerTick
    \/ HandleStartTraining
    \/ \E r \in BagToSet(requests) : StartTrainingResolves(r)
    \/ \E r \in BagToSet(requests), msg \in ErrorMessages : StartTrainingRejects(r, msg)
    \/ \E next \in ActiveStatuses \cup {"complete", "failed"} : ServerTrainingAdvances(next)
    \/ ServerDatasetReady
    \/ TrUnmount

SpecTraining == InitTraining /\ [][NextTraining]_vars

C12_StatusPollerQuiet ==
    /\ [][SentInStep("getTrainingStatus") => trStatus \in ActiveStatuses]_vars
    /\ [][quiet = "settled" =>
            ~SentInStep("getTrainingStatus") /\ ~SentInStep("trainingFetchData")]_vars
    /\ [](~trMounted => trIntervals = {})

(***************************************************************************)
(*                 Further claims about the Generate screen                *)
(***************************************************************************)

\* A request of this kind is settled in the step.
SettledInStep(kind) ==
    \E r \in BagToSet(requests) :
        r.kind = kind /\ CopiesIn(r, requests') < CopiesIn(r, requests)

\* C13: the view changes only along select->create, create->select, select->generating
\* (on a startGeneration response), generating->complete (on a pollJob response with
\* status 'completed'), generating->select and complete->select; and a rejected
\* startGeneration leaves the view and the intervals as they were.
C13_ViewTransitions ==
    /\ [][view' # view =>
            \/ view = "select" /\ view' = "create"
            \/ view = "create" /\ view' = "select"
            \/ /\ view = "select" /\ view' = "generating"
               /\ SettledInStep("startGeneration")
            \/ /\ view = "generating" /\ view' = "complete"
               /\ SettledInStep("pollJob") /\ jobData'.status = "completed"
            \/ view = "generating" /\ view' = "select"
            \/ view = "complete" /\ view' = "select"]_vars
    /\ [][alert' = "Failed to start generation" =>
            view = "select" /\ view' = "select" /\ intervals' = intervals]_vars

\* The requests of this kind that leave in the step.
SentRequests(kind) ==
    {r \in BagToSet(requests') : r.kind = kind /\ CopiesIn(r, requests') > CopiesIn(r, requests)}

\* C14: the body of every startGeneration POST carries the difficulty selected on the
\* screen together with rubric_id and subject_id.
C14_DifficultySent ==
    [][\A r \in SentRequests("startGeneration") :
            /\ r.name.rubric_id = selectedRubric
            /\ r.name.subject_id = selectedSubject
            /\ "difficulty" \in DOMAIN r.name
            /\ r.name.difficulty = difficulty]_vars

\* C15: a startGeneration request leaves only from the select view with a rubric and
\* a subject selected and Ollama reported available, and sending it leaves the view
\* at 'select'; while one of the three is missing no step sends one.
C15_GenerateGuarded ==
    [][/\ SentInStep("startGeneration") =>
            /\ view = "select" /\ view' = "select"
            /\ selectedRubric # 0 /\ selectedSubject # 0
            /\ ollamaStatus = "available"
       /\ ~GenerateEnabled => ~SentInStep("startGeneration")]_vars

\* A startGeneration request is in flight from the select view; Ollama is available.
C15_Witness ==
    /\ Pending("startGeneration") # {}
    /\ view = "select" /\ ollamaStatus = "available"
    /\ selectedRubric # 0 /\ selectedSubject # 0

(***************************************************************************)
(*                 Further claims about the vetting screen                 *)
(***************************************************************************)

\* The submitVetting request whose answer is processed in the step.
SettledSubmits ==
    {r \in Pending("submitVetting") : CopiesIn(r, requests') < CopiesIn(r, requests)}

\* C16: when submitVetting succeeds, the new queue is the queue held when the response
\* is processed without the submitted question, the other questions in their order,
\* whatever Previous, Next or pull-to-refresh did while the request was pending.
C16_OnlySubmittedRemoved ==
    [][\A r \in SettledSubmits :
            alert' = VettedAlert => queue' = Without(queue, r.a)]_vars

\* C17: when submitVetting is rejected, the queue, currentIndex, allReviewed and the
\* chosen action, feedback, rejection reason and CO mapping stay as they were, the
\* alert shows the error's message ('Failed to submit' when it has none) and
\* submitting is false again.
C17_RejectedSubmitKeepsForm ==
    [][SettledSubmits # {} /\ alert' # VettedAlert =>
            /\ UNCHANGED <<queue, currentIndex, allReviewed, action, feedback,
                           rejectionReason, selectedCos, coLevels>>
            /\ alert' \in ErrorMessages \cup {"Failed to submit"}
            /\ submitting /\ ~submitting']_vars

\* A rejection was refused by the backend: the form is still filled in.
C17_Witness ==
    /\ alert \in ErrorMessages \cup {"Failed to submit"}
    /\ ~submitting /\ action = "reject" /\ rejectionReason # "null"
    /\ Len(feedback) >= 5 /\ selectedCos # <<>> /\ queue # <<>>

\* C18: in a history batch the vetting controls are not available and no
\* submitVetting request is ever issued, and the queue shown is the approved
\* questions followed by the rejected ones.
C18_HistoryReadOnly ==
    isHistory =>
        /\ ~ControlsShown
        /\ Pending("submitVetting") = {} /\ submitted = <<>>
        /\ queue \in {<<>>, srvVetted.approved \o srvVetted.rejected}

\* A history batch is shown at its second question, a rejected question with a
\* smaller id than the approved one before it.
C18_Witness ==
    /\ isHistory /\ CardShown /\ currentIndex = 1
    /\ queue = srvVetted.approved \o srvVetted.rejected
    /\ srvVetted.approved # <<>> /\ srvVetted.rejected # <<>>
    /\ queue[1] > queue[2]

\* C19: every submitVetting body with action 'rejected' carries a rejection_reason of
\* the list and a faculty_feedback of at least five characters; a reject attempt
\* that lacks either shows its validation alert and sends nothing.
C19_RejectedCarriesReasonAndFeedback ==
    [][/\ (submitted' # <<>> /\ submitted'[1] = "rejected") =>
            /\ submitted'[5] \in RejectionReasons
            /\ submitted'[4] # Undefined
            /\ Len(submitted'[4]) >= 5
       /\ alert' \in {ReasonRequiredAlert, FeedbackRequiredAlert} =>
            requests' = requests /\ submitted' = <<>>]_vars

(***************************************************************************)
(*                      Claims about rejected polls                        *)
(***************************************************************************)

\* C20: a rejected pollJob is swallowed: the view, jobData and the elapsed timer stay
\* as they were, no alert is shown, and the intervals and the refs that hold them
\* are left as they were, so the poll is sent again at the next tick however many
\* polls have failed (the callback keeps no count of failures).
C20_RejectedPollSwallowed ==
    [][(SettledInStep("pollJob") /\ lastSettled'.outcome = "rejected") =>
            /\ UNCHANGED <<view, jobId, jobData, elapsed, intervals, pollRef, timerRef>>
            /\ alert' = NoAlert]_vars

\* A poll failed, the next one was sent and is in flight; the view is still
\* 'generating' and both intervals of the job are running.
C20_Witness ==
    /\ lastSettled = [kind |-> "pollJob", outcome |-> "rejected"]
    /\ Pending("pollJob") # {}
    /\ view = "generating" /\ jobData.status = "pending"
    /\ \E i \in intervals : i.kind = "poll" /\ i.job = jobId
    /\ \E i \in intervals : i.kind = "timer" /\ i.job = jobId

(***************************************************************************)
(*                 Further claims about TrainingDashboard                  *)
(***************************************************************************)

\* C21: elapsed goes back to 0 only in a step that takes the status from not active
\* to active; it never decreases between two active statuses; and once a status that
\* is not active has been observed the counter keeps its value until the user starts
\* the next training.
C21_ElapsedCounter ==
    /\ [][trElapsed' < trElapsed =>
            /\ trElapsed' = 0
            /\ ~IsActive(trStatus) /\ IsActive(trStatus')]_vars
    /\ [][(IsActive(trStatus) /\ IsActive(trStatus')) => trElapsed' >= trElapsed]_vars
    /\ [][~IsActive(trStatus') => trElapsed' = trElapsed]_vars
    /\ [][quiet # "none" => trElapsed' = trElapsed]_vars

(***************************************************************************)
(*   The creation modals: New Subject (subjects/index.tsx) and the unit,   *)
(*   topic and course-outcome modals of the subject detail (_layout.tsx)   *)
(***************************************************************************)

\* Requests of the modals that may be outstanding at once.
MaxFormRequests == 1

\* Texts of an input where blanks are typed: empty, a blank, a letter after a blank.
FormTexts == {<<>>, <<" ">>, <<" ", "a">>}
\* Texts of the second input of a modal: empty, a letter followed by a blank.
OtherTexts == {<<>>, <<"a", " ">>}
\* Texts of the Unit Number input: empty, a blank, a digit after a blank.
UnitNumberTexts == {<<>>, <<" ">>, <<" ", "2">>}
UnitIds == {1}
\* The chips of the CO modal that are pressed, two of the six.
ToggledLevels == {"Knowledge", "Comprehension"}

\* The course outcomes of the subject as fetchAll returned them: one stored with an
\* empty blooms_levels list, one with the older single blooms_level, one with neither.
CoRecords ==
    {[id |-> 1, description |-> <<"a", " ">>, code |-> <<>>,
      blooms_levels |-> <<>>, blooms_level |-> "null"],
     [id |-> 2, description |-> <<>>, code |-> <<" ", "a">>,
      blooms_levels |-> Undefined, blooms_level |-> "Comprehension"],
     [id |-> 3, description |-> <<"a", " ">>, code |-> <<" ", "a">>,
      blooms_levels |-> Undefined, blooms_level |-> "null"]}

subjectForm == <<modalVisible, newName, newCode, creating>>
unitForm == <<unitModal, unitName, unitNumber>>
topicForm == <<topicCreateModal, activeUnitId, topicTitle>>
coForm == <<coModal, coText, coCode, coBlooms, editingCoId>>
notForms ==
    <<calls, platform, generateVars, detailVars, vettingVars, lastSettled, trainingVars>>

\* A modal covers the screen.
AnyModal == modalVisible \/ unitModal \/ topicCreateModal \/ coModal

\* parseInt(text): the digits after leading blanks, NaN when there is none.
NaN == <<"NaN">>
RECURSIVE DigitPrefix(_)
DigitPrefix(s) ==
    IF s # <<>> /\ (\E d \in 0..9 : <<Head(s)>> = DigitChar(d))
    THEN <<Head(s)>> \o DigitPrefix(Tail(s))
    ELSE <<>>
ParseInt(s) == IF DigitPrefix(TrimStart(s)) = <<>> THEN NaN ELSE DigitPrefix(TrimStart(s))

InitForms ==
    /\ calls = <<>>
    /\ alert = NoAlert
    /\ platform = "native"
    /\ requests = EmptyBag
    /\ GenerateIdle /\ DetailIdle /\ VettingIdle /\ lastSettled = NoneSettled
    /\ TrainingIdle /\ FormsIdle

\* ---- New Subject (subjects/index.tsx) ----

\* subjects/index.tsx:96
OpenSubjectModal ==
    /\ ~AnyModal
    /\ modalVisible' = TRUE
    /\ alert' = NoAlert /\ sent' = <<>>
    /\ UNCHANGED <<notForms, requests, newName, newCode, creating, unitForm, topicForm,
                   coForm>>

\* subjects/index.tsx:177,182
CloseSubjectModal ==
    /\ modalVisible
    /\ modalVisible' = FALSE
    /\ alert' = NoAlert /\ sent' = <<>>
    /\ UNCHANGED <<notForms, requests, newName, newCode, creating, unitForm, topicForm,
                   coForm>>

\* subjects/index.tsx:192  onChangeText={setNewName}
ChangeNewName(text) ==
    /\ modalVisible
    /\ newName' = text
    /\ alert' = NoAlert /\ sent' = <<>>
    /\ UNCHANGED <<notForms, requests, modalVisible, newCode, creating, unitForm,
                   topicForm, coForm>>

\* subjects/index.tsx:201  onChangeText={setNewCode}
ChangeNewCode(text) ==
    /\ modalVisible
    /\ newCode' = text
    /\ alert' = NoAlert /\ sent' = <<>>
    /\ UNCHANGED <<notForms, requests, modalVisible, newName, creating, unitForm,
                   topicForm, coForm>>

\* Mutant: only the name is checked.
CreateSubjectBlockedNameOnly == Trim(newName) = <<>>

\* subjects/index.tsx:49  if (!newName.trim() || !newCode.trim())
CreateSubjectBlocked == Trim(newName) = <<>> \/ Trim(newCode) = <<>>

\* subjects/index.tsx:48-55,207  Create, disabled while creating: handleCreate up to
\* its await.
HandleCreate ==
    /\ modalVisible /\ ~creating
    /\ IF CreateSubjectBlocked
       THEN /\ alert' = "Name and code are required"
            /\ sent' = <<>>
            /\ UNCHANGED <<requests, creating>>
       ELSE /\ InFlight < MaxFormRequests
            /\ creating' = TRUE
            /\ requests' = Send(Req("createSubject", 0, 0, <<>>))
            /\ sent' = <<"createSubject", Trim(newName), Trim(newCode)>>
            /\ alert' = NoAlert
    /\ UNCHANGED <<notForms, modalVisible, newName, newCode, unitForm, topicForm, coForm>>

\* subjects/index.tsx:56-59,63-65  createSubject resolved: the fields are cleared, the
\* modal is closed, fetchSubjects() is called; then the finally.
CreateSubjectResolves(r) ==
    /\ r \in Pending("createSubject")
    /\ newName' = <<>> /\ newCode' = <<>> /\ modalVisible' = FALSE /\ creating' = FALSE
    /\ requests' = Settle(r) (+) SetToBag({Req("fetchSubjects", 0, 0, <<>>)})
    /\ alert' = NoAlert /\ sent' = <<>>
    /\ UNCHANGED <<notForms, unitForm, topicForm, coForm>>

\* subjects/index.tsx:60-65  createSubject rejected.
CreateSubjectRejects(r, msg) ==
    /\ r \in Pending("createSubject")
    /\ creating' = FALSE
    /\ requests' = Settle(r)
    /\ alert' = SubjectsRejectedAlert(r.kind, msg) /\ sent' = <<>>
    /\ UNCHANGED <<notForms, modalVisible, newName, newCode, unitForm, topicForm, coForm>>

\* subjects/index.tsx:24-33  fetchSubjects settled; the list of subjects takes no part
\* in the modal.
FetchSubjectsSettles(r) ==
    /\ r \in Pending("fetchSubjects")
    /\ requests' = Settle(r)
    /\ alert' = NoAlert /\ sent' = <<>>
    /\ UNCHANGED <<notForms, subjectForm, unitForm, topicForm, coForm>>

\* ---- Add Unit (_layout.tsx) ----

\* _layout.tsx:751
OpenUnitModal ==
    /\ ~AnyModal
    /\ unitModal' = TRUE
    /\ alert' = NoAlert /\ sent' = <<>>
    /\ UNCHANGED <<notForms, requests, subjectForm, unitName, unitNumber, topicForm,
                   coForm>>

\* _layout.tsx:805,809
CloseUnitModal ==
    /\ unitModal
    /\ unitModal' = FALSE
    /\ alert' = NoAlert /\ sent' = <<>>
    /\ UNCHANGED <<notForms, requests, subjectForm, unitName, unitNumber, topicForm,
                   coForm>>

\* _layout.tsx:814  onChangeText={setUnitName}
ChangeUnitName(text) ==
    /\ unitModal
    /\ unitName' = text
    /\ alert' = NoAlert /\ sent' = <<>>
    /\ UNCHANGED <<notForms, requests, subjectForm, unitModal, unitNumber, topicForm,
                   coForm>>

\* _layout.tsx:816  onChangeText={setUnitNumber}
ChangeUnitNumber(text) ==
    /\ unitModal
    /\ unitNumber' = text
    /\ alert' = NoAlert /\ sent' = <<>>
    /\ UNCHANGED <<notForms, requests, subjectForm, unitModal, unitName, topicForm,
                   coForm>>

\* _layout.tsx:430  if (!unitName.trim() || !unitNumber.trim()) return;
CreateUnitBlocked == Trim(unitName) = <<>> \/ Trim(unitNumber) = <<>>

\* _layout.tsx:429-432,818  handleCreateUnit up to its await.
HandleCreateUnit ==
    /\ unitModal
    /\ IF CreateUnitBlocked
       THEN /\ sent' = <<>>
            /\ UNCHANGED requests
       ELSE /\ InFlight < MaxFormRequests
            /\ requests' = Send(Req("createUnit", 0, 0, <<>>))
            /\ sent' = <<"createUnit", Trim(unitName), ParseInt(unitNumber)>>
    /\ alert' = NoAlert
    /\ UNCHANGED <<notForms, subjectForm, unitForm, topicForm, coForm>>

\* _layout.tsx:433-434  createUnit resolved.
CreateUnitResolves(r) ==
    /\ r \in Pending("createUnit")
    /\ unitName' = <<>> /\ unitNumber' = <<>> /\ unitModal' = FALSE
    /\ requests' = Settle(r) (+) SetToBag({FetchAllReq})
    /\ alert' = NoAlert /\ sent' = <<>>
    /\ UNCHANGED <<notForms, subjectForm, topicForm, coForm>>

\* ---- Add Topic (_layout.tsx) ----

\* _layout.tsx:738  setActiveUnitId(unit.id); setTopicCreateModal(true)
OpenTopicModal(unit) ==
    /\ ~AnyModal
    /\ activeUnitId' = unit
    /\ topicCreateModal' = TRUE
    /\ alert' = NoAlert /\ sent' = <<>>
    /\ UNCHANGED <<notForms, requests, subjectForm, unitForm, topicTitle, coForm>>

\* _layout.tsx:828,832
CloseTopicModal ==
    /\ topicCreateModal
    /\ topicCreateModal' = FALSE
    /\ alert' = NoAlert /\ sent' = <<>>
    /\ UNCHANGED <<notForms, requests, subjectForm, unitForm, activeUnitId, topicTitle,
                   coForm>>

\* _layout.tsx:837  onChangeText={setTopicTitle}
ChangeTopicTitle(text) ==
    /\ topicCreateModal
    /\ topicTitle' = text
    /\ alert' = NoAlert /\ sent' = <<>>
    /\ UNCHANGED <<notForms, requests, subjectForm, unitForm, topicCreateModal,
                   activeUnitId, coForm>>

\* _layout.tsx:439  if (!topicTitle.trim() || !activeUnitId) return;
CreateTopicBlocked == Trim(topicTitle) = <<>> \/ activeUnitId = 0

\* _layout.tsx:438-441,839  handleCreateTopic up to its await.
HandleCreateTopic ==
    /\ topicCreateModal
    /\ IF CreateTopicBlocked
       THEN /\ sent' = <<>>
            /\ UNCHANGED requests
       ELSE /\ InFlight < MaxFormRequests
            /\ requests' = Send(Req("createTopic", 0, 0, <<>>))
            /\ sent' = <<"createTopic", activeUnitId, Trim(topicTitle)>>
    /\ alert' = NoAlert
    /\ UNCHANGED <<notForms, subjectForm, unitForm, topicForm, coForm>>

\* _layout.tsx:442-443  createTopic resolved.
CreateTopicResolves(r) ==
    /\ r \in Pending("createTopic")
    /\ topicTitle' = <<>> /\ topicCreateModal' = FALSE /\ activeUnitId' = 0
    /\ requests' = Settle(r) (+) SetToBag({FetchAllReq})
    /\ alert' = NoAlert /\ sent' = <<>>
    /\ UNCHANGED <<notForms, subjectForm, unitForm, coForm>>

\* ---- Add / Edit Course Outcome (_layout.tsx) ----

\* _layout.tsx:352  co.blooms_levels || (co.blooms_level ? [co.blooms_level] : ['Knowledge'])
BloomsOf(co) ==
    IF co.blooms_levels # Undefined THEN co.blooms_levels
    ELSE IF co.blooms_level # "null" THEN <<co.blooms_level>>
    ELSE <<"Knowledge">>

\* _layout.tsx:347-360,564  openCoModal() for a new course outcome.
OpenCoModalNew ==
    /\ ~AnyModal
    /\ editingCoId' = 0 /\ coText' = <<>> /\ coCode' = <<>>
    /\ coBlooms' = <<"Knowledge">>
    /\ coModal' = TRUE
    /\ alert' = NoAlert /\ sent' = <<>>
    /\ UNCHANGED <<notForms, requests, subjectForm, unitForm, topicForm>>

\* _layout.tsx:347-360,596  openCoModal(co) for a listed course outcome.
OpenCoModal(co) ==
    /\ ~AnyModal
    /\ editingCoId' = co.id /\ coText' = co.description /\ coCode' = co.code
    /\ coBlooms' = BloomsOf(co)
    /\ coModal' = TRUE
    /\ alert' = NoAlert /\ sent' = <<>>
    /\ UNCHANGED <<notForms, requests, subjectForm, unitForm, topicForm>>

\* _layout.tsx:873,877
CloseCoModal ==
    /\ coModal
    /\ coModal' = FALSE
    /\ alert' = NoAlert /\ sent' = <<>>
    /\ UNCHANGED <<notForms, requests, subjectForm, unitForm, topicForm, coText, coCode,
                   coBlooms, editingCoId>>

\* _layout.tsx:883  onChangeText={setCoCode}
ChangeCoCode(text) ==
    /\ coModal
    /\ coCode' = text
    /\ alert' = NoAlert /\ sent' = <<>>
    /\ UNCHANGED <<notForms, requests, subjectForm, unitForm, topicForm, coModal, coText,
                   coBlooms, editingCoId>>

\* _layout.tsx:909  onChangeText={setCoText}
ChangeCoText(text) ==
    /\ coModal
    /\ coText' = text
    /\ alert' = NoAlert /\ sent' = <<>>
    /\ UNCHANGED <<notForms, requests, subjectForm, unitForm, topicForm, coModal, coCode,
                   coBlooms, editingCoId>>

\* Mutant: the last selected level can be deselected.
LastLevelKeptNever == FALSE

\* _layout.tsx:893  the selected chip is the only one: !(coBlooms.length > 1)
LastLevelKept == ~(Len(coBlooms) > 1)

\* _layout.tsx:889-901  a Bloom's level chip is pressed.
ToggleCoBloom(level) ==
    /\ coModal
    /\ IF \E k \in DOMAIN coBlooms : coBlooms[k] = level
       THEN IF LastLevelKept
            THEN /\ alert' = "At least one Bloom's Level is required."
                 /\ UNCHANGED coBlooms
            ELSE /\ coBlooms' = SelectSeq(coBlooms, LAMBDA b : b # level)
                 /\ alert' = NoAlert
       ELSE /\ coBlooms' = Append(coBlooms, level)
            /\ alert' = NoAlert
    /\ sent' = <<>>
    /\ UNCHANGED <<notForms, requests, subjectForm, unitForm, topicForm, coModal, coText,
                   coCode, editingCoId>>

\* _layout.tsx:328  if (!coCode.trim() && !coText.trim())
SaveCoBlocked == Trim(coCode) = <<>> /\ Trim(coText) = <<>>

\* _layout.tsx:332  if (coBlooms.length === 0)
CoBloomsMissing == Len(coBlooms) = 0

\* _layout.tsx:326-341,911  Add CO / Save Changes: handleCreateCO up to its await.
HandleCreateCO ==
    /\ coModal
    /\ IF SaveCoBlocked
       THEN /\ alert' = "Please provide at least a Code or Description"
            /\ sent' = <<>>
            /\ UNCHANGED requests
       ELSE IF CoBloomsMissing
       THEN /\ alert' = "Please select at least one Bloom's Level"
            /\ sent' = <<>>
            /\ UNCHANGED requests
       ELSE /\ InFlight < MaxFormRequests
            /\ requests' = Send(Req(IF editingCoId # 0 THEN "updateCO" ELSE "createCO",
                                    0, 0, <<>>))
            /\ sent' = <<IF editingCoId # 0 THEN "updateCO" ELSE "createCO",
                         coText, coCode, coBlooms>>
            /\ alert' = NoAlert
    /\ UNCHANGED <<notForms, subjectForm, unitForm, topicForm, coForm>>

\* _layout.tsx:342-343  createCO / updateCO resolved.
SaveCoResolves(r) ==
    /\ r \in Pending("createCO") \cup Pending("updateCO")
    /\ coModal' = FALSE /\ coText' = <<>> /\ coCode' = <<>>
    /\ coBlooms' = <<"Knowledge">> /\ editingCoId' = 0
    /\ requests' = Settle(r) (+) SetToBag({FetchAllReq})
    /\ alert' = NoAlert /\ sent' = <<>>
    /\ UNCHANGED <<notForms, subjectForm, unitForm, topicForm>>

\* _layout.tsx:344,435,444  createUnit, createTopic, createCO or updateCO rejected.
DetailCreateRejects(r, msg) ==
    /\ r.kind \in {"createUnit", "createTopic", "createCO", "updateCO"}
    /\ BagIn(r, requests)
    /\ requests' = Settle(r)
    /\ alert' = DetailRejectedAlert(r.kind, msg) /\ sent' = <<>>
    /\ UNCHANGED <<notForms, subjectForm, unitForm, topicForm, coForm>>

NextForms ==
    \/ OpenSubjectModal
    \/ CloseSubjectModal
    \/ \E text \in FormTexts : ChangeNewName(text)
    \/ \E text \in OtherTexts : ChangeNewCode(text)
    \/ HandleCreate
    \/ \E r \in BagToSet(requests) : CreateSubjectResolves(r)
    \/ \E r \in BagToSet(requests), msg \in ErrorMessages : CreateSubjectRejects(r, msg)
    \/ \E r \in BagToSet(requests) : FetchSubjectsSettles(r)
    \/ OpenUnitModal
    \/ CloseUnitModal
    \/ \E text \in OtherTexts : ChangeUnitName(text)
    \/ \E text \in UnitNumberTexts : ChangeUnitNumber(text)
    \/ HandleCreateUnit
    \/ \E r \in BagToSet(requests) : CreateUnitResolves(r)
    \/ \E unit \in UnitIds : OpenTopicModal(unit)
    \/ CloseTopicModal
    \/ \E text \in FormTexts : ChangeTopicTitle(text)
    \/ HandleCreateTopic
    \/ \E r \in BagToSet(requests) : CreateTopicResolves(r)
    \/ OpenCoModalNew
    \/ \E co \in {c \in CoRecords : c.id = 2} : OpenCoModal(co)
    \/ CloseCoModal
    \/ \E text \in FormTexts : ChangeCoCode(text)
    \/ \E text \in OtherTexts : ChangeCoText(text)
    \/ HandleCreateCO
    \/ \E r \in BagToSet(requests) : SaveCoResolves(r)
    \/ \E r \in BagToSet(requests), msg \in ErrorMessages : DetailCreateRejects(r, msg)
    \/ FetchAllResolves
    \/ FetchAllRejects

\* The four modals; one listed course outcome is edited, the Bloom's level chips are
\* left alone.
SpecForms == InitForms /\ [][NextForms]_vars

NextCoModal ==
    \/ OpenCoModalNew
    \/ \E co \in CoRecords : OpenCoModal(co)
    \/ CloseCoModal
    \/ \E text \in FormTexts : ChangeCoCode(text)
    \/ \E text \in OtherTexts : ChangeCoText(text)
    \/ \E level \in ToggledLevels : ToggleCoBloom(level)
    \/ HandleCreateCO
    \/ \E r \in BagToSet(requests) : SaveCoResolves(r)
    \/ \E r \in BagToSet(requests), msg \in ErrorMessages : DetailCreateRejects(r, msg)
    \/ FetchAllResolves
    \/ FetchAllRejects

\* The course-outcome modal alone, chips included.
SpecCoModal == InitForms /\ [][NextCoModal]_vars

\* C22: createSubject leaves only with a name and a code that are non-blank after
\* trimming, and carries them trimmed; createUnit only with a non-blank name and unit
\* number; createTopic only with a non-blank title and a chosen unit; createCO and
\* updateCO only when the code or the description is non-blank.  A blocked attempt
\* sends nothing and leaves the modal open with its fields as they were.
C22_CreationValidated ==
    [][/\ SentInStep("createSubject") =>
            /\ Trim(newName) # <<>> /\ Trim(newCode) # <<>>
            /\ sent' = <<"createSubject", Trim(newName), Trim(newCode)>>
       /\ SentInStep("createUnit") =>
            /\ Trim(unitName) # <<>> /\ Trim(unitNumber) # <<>>
            /\ sent'[1] = "createUnit"
       /\ SentInStep("createTopic") =>
            /\ Trim(topicTitle) # <<>> /\ activeUnitId \in UnitIds
            /\ sent' = <<"createTopic", activeUnitId, Trim(topicTitle)>>
       /\ (SentInStep("createCO") \/ SentInStep("updateCO")) =>
            /\ Trim(coCode) # <<>> \/ Trim(coText) # <<>>
            /\ sent'[1] \in {"createCO", "updateCO"}
       /\ alert' = "Name and code are required" =>
            /\ requests' = requests
            /\ modalVisible /\ modalVisible'
            /\ UNCHANGED <<newName, newCode>>
       /\ alert' = "Please provide at least a Code or Description" =>
            /\ requests' = requests
            /\ coModal /\ coModal'
            /\ UNCHANGED <<coText, coCode, coBlooms, editingCoId>>
       /\ (HandleCreateUnit /\ CreateUnitBlocked) =>
            /\ requests' = requests
            /\ unitModal'
            /\ UNCHANGED <<unitName, unitNumber>>
       /\ (HandleCreateTopic /\ CreateTopicBlocked) =>
            /\ requests' = requests
            /\ topicCreateModal'
            /\ UNCHANGED <<topicTitle, activeUnitId>>]_vars

\* Create was pressed with a name of blanks only: the alert shows, the modal is open.
C22_Witness ==
    /\ alert = "Name and code are required"
    /\ modalVisible
    /\ newName = <<" ">> /\ newCode = <<"a", " ">>
    /\ requests = EmptyBag

\* C23: every createCO and updateCO payload carries a non-empty blooms_levels list, and
\* a press on a level chip never leaves the selection of the CO modal empty.
C23_BloomLevelRequired ==
    /\ [][(SentInStep("createCO") \/ SentInStep("updateCO")) =>
            /\ sent'[4] = coBlooms
            /\ sent'[4] # <<>>]_vars
    /\ [][(coModal /\ coModal' /\ coBlooms' # coBlooms) => coBlooms' # <<>>]_vars
    /\ [][(coModal /\ coModal' /\ coBlooms # <<>>) => coBlooms' # <<>>]_vars

\* The only selected level was pressed: it stays selected and the alert shows.
C23_Witness ==
    /\ alert = "At least one Bloom's Level is required."
    /\ coModal
    /\ coBlooms = <<"Comprehension">>

(***************************************************************************)
(*                Further claims about the Generate screen                 *)
(***************************************************************************)

\* C24: once a pollJob response with status 'completed' or 'failed' has been
\* processed, no pollJob response that settles later changes jobData (a failure
\* that is shown stays shown), and the complete view shows a job whose status is
\* 'completed'.
C24_TerminalJobDataFinal ==
    /\ [][(jobData.status \in Terminal /\ SettledInStep("pollJob")) =>
            jobData' = jobData]_vars
    /\ [](view = "complete" => jobData.status = "completed")

\* C25: the selected rubric is null or one of the rubrics held, the selected subject
\* is null or one of the subjects held, and a startGeneration request names a rubric
\* that is held (a rubric deleted and gone from the refetched list is not used).
C25_SelectionListed ==
    /\ [](selectedRubric = 0 \/ selectedRubric \in rubrics)
    /\ [](selectedSubject = 0 \/ selectedSubject \in subjects)
    /\ [][\A r \in SentRequests("startGeneration") : r.a \in rubrics]_vars

=============================================================================
